---- MODULE Spec2Model ----
(***************************************************************************)
(* Storage controller (storage_controller/src/service.rs): the generation  *)
(* protocol, shard split, and node drain/fill, as state machines.          *)
(*                                                                         *)
(* Conventions.  An Option<Generation> is an integer, NoGen (-1) standing  *)
(* for None, so that Rust's ordering None < Some(g) is the integer order.  *)
(* An Option<NodeId> is an integer, NoNode (0) standing for None.  Maps    *)
(* (BTreeMap, HashMap, database tables) are functions whose DOMAIN is the  *)
(* set of keys present.                                                    *)
(***************************************************************************)
EXTENDS Integers, Sequences, FiniteSets, TLC

VARIABLES
    tenants,      \* ServiceState.tenants: shard id -> TenantShard (generation, policy, intent.attached)
    db,           \* tenant_shards table: shard id -> row (generation, generation_pageserver)
    op,           \* per tenant: the operation holding the tenant's exclusive lock, and its locals
    ra,           \* per node: a re_attach request between its database call and its in-memory step
    rec,          \* per shard: the reconciler in flight and the generation its result will carry
    created,      \* tenant ids that have been created (ids are not used again after deletion)
    track,        \* which history the specification records: "none", "superseded", "returned" or "fill"
    superseded,   \* history: per shard, the generations G that a re_attach raised the shard away from
    returned,     \* history: per shard, the generations returned by re_attach and attach_hook
    retFresh,     \* history: no generation was returned twice for a shard
    vreq,         \* validate: the request, a sequence of <<shard id, claimed generation>>
    vresp,        \* validate: the response, a sequence of <<shard id, valid>>
    mem,          \* split: ServiceState.tenants of one tenant, <<count, number>> -> shard (splitting, intent.attached)
    rows,         \* split: the tenant's rows of tenant_shards, <<count, number>> -> row (splitting, generation_pageserver)
    sp,           \* split: the tenant_shard_split request or abort job holding the tenant's lock
    startup_abort, \* split: the shard count Service::spawn aborted in the step just taken, or 0
    nodes,        \* drain/fill: ServiceState.nodes, node id -> Node (scheduling policy, availability)
    node_rows,    \* drain/fill: the nodes table, node id -> persisted scheduling policy
    intents,      \* drain/fill: ServiceState.tenants, shard id -> intent (attached, secondary)
    ongoing_operation, \* drain/fill: ServiceState.ongoing_operation, the handler or NoOperation
    ops,          \* drain/fill: the start requests and the background tasks they spawned
    rshards,      \* reconciles: ServiceState.tenants, shard id -> shard (intent, observed, sequence, ...)
    permits,      \* reconciles: the available permits of reconciler_concurrency
    delayed_reconcile_rx, \* reconciles: the queue of shard ids parked for a later reconcile
    tasks,        \* reconciles: the Reconciler tasks that have not posted their result yet
    exiting,      \* reconciles: the number of Reconciler tasks that posted it and still hold their unit
    result_rx,    \* reconciles: the channel of ReconcileResults to process_result
    waits,        \* reconciles: the waiters handed to requests, and how their wait ended
    seq_wait,     \* reconciles: per shard, the values its two SeqWait (shared with waiters) reached
    applied,      \* history: per shard, the largest sequence of a successful result applied
    reconciles_spawned, \* reconciles: what the last reconcile_all returned, -1 before the first
    pnodes,       \* placement: ServiceState.nodes, node id -> Node
    ptenants,     \* placement: ServiceState.tenants of one tenant, <<count, number>> -> shard (policy, intent)
    scheduler,    \* placement: ServiceState.scheduler, node id -> the shards counted as attached and as secondary
    re_nodes,     \* re_attach: ServiceState.nodes, node id -> Node
    re_node_rows, \* re_attach: the nodes table, node id -> persisted scheduling policy
    re_tenants,   \* re_attach: ServiceState.tenants, shard id -> shard (generation, intent)
    re_rows,      \* re_attach: tenant_shards, shard id -> row (generation, generation_pageserver)
    re_req,       \* re_attach: the request between its database call and its in-memory step
    re_cfg,       \* re_attach: a node_configure holding the node's lock, between its database call and its in-memory step
    re_response,  \* re_attach: the ReAttachResponse of the last request that returned
    cr_nodes,     \* tenant_create: ServiceState.nodes, node id -> Node
    cr_tenants,   \* tenant_create: ServiceState.tenants of one tenant, <<count, number>> -> shard (generation, policy, config, intent)
    cr_rows,      \* tenant_create: the tenant's rows of tenant_shards, <<count, number>> -> row (generation, placement_policy, config)
    cr_req,       \* tenant_create: the request holding the tenant's lock, between its database call and its in-memory step
    cr_response,   \* tenant_create: the result of the last request that returned
    td_nodes, \* tenant_delete: ServiceState.nodes, node id -> Node
    td_tenants, \* tenant_delete: ServiceState.tenants of one tenant, shard id -> shard (policy, intent, observed)
    td_rows, \* tenant_delete: the shard ids of the tenant's rows of tenant_shards
    td_rec, \* tenant_delete: per shard, the detach reconcile: none, running, ok or failed
    td_req, \* tenant_delete: the request holding the tenant's lock, and how far it got
    td_response, \* tenant_delete: the result of the last request that returned
    lk_guards, \* tenant lock: the guards of tenant_op_locks held for the tenant, each by a request or by the abort job
    lk_req, \* tenant lock: per request, the operation, how far it got, its result and whether it called a pageserver
    lk_splitting, \* tenant lock: a shard of the tenant has SplitState::Splitting in memory
    lk_abort, \* tenant lock: the TenantShardSplitAbort job of the tenant, and the attempts made
    lk_cancel, \* tenant lock: Service::cancel is cancelled
    lk_part_split, \* history: a split failed and its abort has not completed successfully
    api_call, \* pageserver_api::models: the last call of a function of the module, its arguments and its result
    sq_nodes, \* sequence: ServiceState.nodes, node id -> Node
    sq_shard, \* sequence: one TenantShard of ServiceState.tenants (policy, intent, sequence)
    ob_shard, \* observed state: the shard (intent, observed locations, sequence, waiters, last error)
    ob_tasks, \* observed state: the Reconciler tasks in flight
    ob_result_rx, \* observed state: the ReconcileResults posted and not yet processed
    ob_startup_complete, \* observed state: startup_reconcile has run
    ob_describe, \* observed state: last_error in the response of a tenant_describe that ran last
    au_call, \* autosplit: the last invocation of autosplit_tenants, what the nodes answered and the splits it requested
    ov_call, \* optimize_all_validate: the last candidate validated, what the node answered and the outcome
    bg_completions, \* startup barrier: the holders of a Completion of the startup_complete barrier
    bg_startup, \* startup barrier: how far the task that runs startup_reconcile got
    bg_cancel, \* startup barrier: Service::cancel is cancelled
    bg_gate_closed, \* startup barrier: Service::gate is closed
    bg_tasks, \* startup barrier: where the background_reconcile and heartbeat tasks are
    bg_rounds, \* startup barrier: the rounds run so far, by kind, and the calls startup_reconcile made itself
    nc_nodes, \* node_configure: the nodes, by id
    nc_tenants, \* node_configure: the shards with intent, sequence and observed locations
    nc_call, \* node_configure: the last call of node_configure and the transition it made
    ps_call, \* split requests: the last tenant_shard_split request and the answer of its validation
    tl_timeline, \* timeline delete: the timeline on the pageserver of each shard
    tl_req \* timeline delete: the tenant_timeline_delete requests

genVars == <<tenants, db, op, ra, rec, created, track, superseded, returned, retFresh>>
valVars == <<vreq, vresp>>
splitVars == <<mem, rows, sp, startup_abort>>
opsVars == <<nodes, node_rows, intents, ongoing_operation, ops>>
rcVars == <<rshards, permits, delayed_reconcile_rx, tasks, exiting, result_rx, waits, seq_wait,
            applied, reconciles_spawned>>
plVars == <<pnodes, ptenants, scheduler>>
reVars == <<re_nodes, re_node_rows, re_tenants, re_rows, re_req, re_cfg, re_response>>
crVars == <<cr_nodes, cr_tenants, cr_rows, cr_req, cr_response>>
tdVars == <<td_nodes, td_tenants, td_rows, td_rec, td_req, td_response>>
lkVars == <<lk_guards, lk_req, lk_splitting, lk_abort, lk_cancel, lk_part_split>>
apiVars == <<api_call>>
sqVars == <<sq_nodes, sq_shard>>
obVars == <<ob_shard, ob_tasks, ob_result_rx, ob_startup_complete, ob_describe>>
auVars == <<au_call>>
ovVars == <<ov_call>>
bgVars == <<bg_completions, bg_startup, bg_cancel, bg_gate_closed, bg_tasks, bg_rounds>>
ncVars == <<nc_nodes, nc_tenants, nc_call>>
psVars == <<ps_call>>
tlVars == <<tl_timeline, tl_req>>
vars == <<genVars, valVars, splitVars, opsVars, rcVars, plVars, reVars, crVars, tdVars, lkVars, apiVars, sqVars, obVars, auVars, ovVars, bgVars, ncVars, psVars, tlVars>>

\* What the steps of each part of the model leave unchanged.
genOthers == <<valVars, splitVars, opsVars, rcVars, plVars, reVars, crVars, tdVars, lkVars, apiVars, sqVars, obVars, auVars, ovVars, bgVars, ncVars, psVars, tlVars>>
valOthers == <<genVars, splitVars, opsVars, rcVars, plVars, reVars, crVars, tdVars, lkVars, apiVars, sqVars, obVars, auVars, ovVars, bgVars, ncVars, psVars, tlVars>>
splitOthers == <<genVars, valVars, opsVars, rcVars, plVars, reVars, crVars, tdVars, lkVars, apiVars, sqVars, obVars, auVars, ovVars, bgVars, ncVars, psVars, tlVars>>
opsOthers == <<genVars, valVars, splitVars, rcVars, plVars, reVars, crVars, tdVars, lkVars, apiVars, sqVars, obVars, auVars, ovVars, bgVars, ncVars, psVars, tlVars>>
rcOthers == <<genVars, valVars, splitVars, opsVars, plVars, reVars, crVars, tdVars, lkVars, apiVars, sqVars, obVars, auVars, ovVars, bgVars, ncVars, psVars, tlVars>>
plOthers == <<genVars, valVars, splitVars, opsVars, rcVars, reVars, crVars, tdVars, lkVars, apiVars, sqVars, obVars, auVars, ovVars, bgVars, ncVars, psVars, tlVars>>
reOthers == <<genVars, valVars, splitVars, opsVars, rcVars, plVars, crVars, tdVars, lkVars, apiVars, sqVars, obVars, auVars, ovVars, bgVars, ncVars, psVars, tlVars>>
crOthers == <<genVars, valVars, splitVars, opsVars, rcVars, plVars, reVars, tdVars, lkVars, apiVars, sqVars, obVars, auVars, ovVars, bgVars, ncVars, psVars, tlVars>>
tdOthers == <<genVars, valVars, splitVars, opsVars, rcVars, plVars, reVars, crVars, lkVars, apiVars, sqVars, obVars, auVars, ovVars, bgVars, ncVars, psVars, tlVars>>
lkOthers == <<genVars, valVars, splitVars, opsVars, rcVars, plVars, reVars, crVars, tdVars, apiVars, sqVars, obVars, auVars, ovVars, bgVars, ncVars, psVars, tlVars>>
apiOthers == <<genVars, valVars, splitVars, opsVars, rcVars, plVars, reVars, crVars, tdVars, lkVars, sqVars, obVars, auVars, ovVars, bgVars, ncVars, psVars, tlVars>>
sqOthers == <<genVars, valVars, splitVars, opsVars, rcVars, plVars, reVars, crVars, tdVars, lkVars, apiVars, obVars, auVars, ovVars, bgVars, ncVars, psVars, tlVars>>
obOthers == <<genVars, valVars, splitVars, opsVars, rcVars, plVars, reVars, crVars, tdVars, lkVars, apiVars, sqVars, auVars, ovVars, bgVars, ncVars, psVars, tlVars>>
auOthers == <<genVars, valVars, splitVars, opsVars, rcVars, plVars, reVars, crVars, tdVars, lkVars, apiVars, sqVars, obVars, ovVars, bgVars, ncVars, psVars, tlVars>>
ovOthers == <<genVars, valVars, splitVars, opsVars, rcVars, plVars, reVars, crVars, tdVars, lkVars, apiVars, sqVars, obVars, auVars, bgVars, ncVars, psVars, tlVars>>
bgOthers == <<genVars, valVars, splitVars, opsVars, rcVars, plVars, reVars, crVars, tdVars, lkVars, apiVars, sqVars, obVars, auVars, ovVars, ncVars, psVars, tlVars>>
ncOthers == <<genVars, valVars, splitVars, opsVars, rcVars, plVars, reVars, crVars, tdVars, lkVars, apiVars, sqVars, obVars, auVars, ovVars, bgVars, psVars, tlVars>>
psOthers == <<genVars, valVars, splitVars, opsVars, rcVars, plVars, reVars, crVars, tdVars, lkVars, apiVars, sqVars, obVars, auVars, ovVars, bgVars, ncVars, tlVars>>
tlOthers == <<genVars, valVars, splitVars, opsVars, rcVars, plVars, reVars, crVars, tdVars, lkVars, apiVars, sqVars, obVars, auVars, ovVars, bgVars, ncVars, psVars>>
psSplitOthers == <<genVars, valVars, opsVars, rcVars, plVars, reVars, crVars, tdVars, lkVars, apiVars, sqVars, obVars, auVars, ovVars, bgVars, ncVars, tlVars>>

(***************************************************************************)
(* Bounds and constants                                                    *)
(***************************************************************************)
MaxGen == 3          \* generations are minted while the row's generation is below this
NumNodes == 2        \* pageservers
MaxReq == 2          \* entries in a validate request
NumValidateIds == 2  \* shard ids a validate request may name
MaxClaim == 2        \* generations a validate request may claim, and its shards may hold
MaxShardCount == 4   \* the largest shard count of a tenant
NumShardIds == 5     \* drain/fill: tenant shards
TenantSize == 2      \* drain/fill: shards of the one sharded tenant, the other tenants are unsharded
MaxOps == 2          \* drain/fill: start requests
\* The batch limit of drain and fill (background_node_operations.rs), scaled
\* to the number of shards of the model.
MAX_RECONCILES_PER_OPERATION == 2
\* MAX_DELAYED_RECONCILES is 10000 in the source: the capacity of the delayed-reconcile queue.
MAX_DELAYED_RECONCILES == 2
NumRcShards == 2     \* shards of the reconcile model
MaxSequence == 2     \* intents change while the shard's sequence is below this
MaxWaits == 1        \* requests that wait on a reconcile
reconciler_concurrency == 1 \* Config::reconciler_concurrency, the permits of the semaphore

INITIAL_GENERATION == 0

NoGen == -1
NoNode == 0
\* Option<OperationHandler>::None
NoOperation == [operation |-> <<"none", NoNode>>, cancel |-> 0]
\* The generation protocol is followed for one unsharded tenant.
Shards == {1}
Nodes == 1..NumNodes
Gens == 0..MaxGen
OptGens == {NoGen} \cup Gens
OptNodes == {NoNode} \cup Nodes

Max(a, b) == IF a >= b THEN a ELSE b

SetMax(S) == CHOOSE x \in S : \A y \in S : y <= x

Remove(f, k) == [x \in (DOMAIN f) \ {k} |-> f[x]]

Put(f, k, v) == [x \in (DOMAIN f) \cup {k} |-> IF x = k THEN v ELSE f[x]]

(***************************************************************************)
(* validate                                                                *)
(***************************************************************************)
\* One entry of the response: the shard's generation compared with the claim,
\* or true for a shard that is not in the map.
WrongValidateEntry(tmap, id, gen) ==
    IF id \in DOMAIN tmap THEN tmap[id].generation = gen ELSE FALSE

ValidateEntry(tmap, id, gen) ==
    IF id \in DOMAIN tmap THEN tmap[id].generation = gen ELSE TRUE

ValidateResponse(tmap, req) ==
    [i \in 1..Len(req) |-> <<req[i][1], ValidateEntry(tmap, req[i][1], req[i][2])>>]

\* Service::validate: reads the map under the read lock, writes nothing.
validate ==
    /\ vresp' = ValidateResponse(tenants, vreq)
    /\ vresp' # vresp
    /\ UNCHANGED <<vreq, valOthers>>

\* The maps validate is run on: each id absent, or present with no
\* generation or with one.
ValidateMaps ==
    UNION {[ids -> {[generation |-> g, policy |-> "Attached", attached |-> NoNode] :
                        g \in {NoGen} \cup (0..MaxClaim)}] :
           ids \in SUBSET (1..NumValidateIds)}

ValidateRequests ==
    UNION {[1..n -> (1..NumValidateIds) \X (0..MaxClaim)] : n \in 1..MaxReq}

(***************************************************************************)
(* Records                                                                 *)
(***************************************************************************)
\* Placement policies; Attached(n) is "Attached" (the number of secondaries
\* plays no part in the generation protocol).
Policies == {"Detached", "Secondary", "Attached"}

TenantShard(g, p, a) == [generation |-> g, policy |-> p, attached |-> a]

\* TenantShard::new: empty intent, generation Some(0).
TenantShardNew(p) == TenantShard(0, p, NoNode)

\* A row of tenant_shards: the columns the generation protocol reads and writes.
Row(g, n) == [generation |-> g, generation_pageserver |-> n]

IdleOp == [kind |-> "idle", node |-> NoNode, gen |-> NoGen, policy |-> "Detached"]

IdleRa == [pc |-> "idle", inc |-> <<>>]

IdleRec == [active |-> FALSE, generation |-> NoGen, node |-> NoNode, incremented |-> FALSE]

(***************************************************************************)
(* Persistence (database transactions)                                     *)
(***************************************************************************)
\* increment_generation can mint for this row: the row exists with a
\* generation set (the bound keeps the counter finite).
CanIncrement(d, id) ==
    /\ id \in DOMAIN d
    /\ d[id].generation # NoGen
    /\ d[id].generation < MaxGen

\* Persistence::increment_generation: generation + 1, stamped with the node.
increment_generation(d, id, node) ==
    [d EXCEPT ![id] = Row(d[id].generation + 1, node)]

\* Persistence::re_attach: the rows whose generation_pageserver is the node.
ReAttachRows(d, node) == {id \in DOMAIN d : d[id].generation_pageserver = node}

\* Persistence::re_attach: every such row's generation + 1.
persistence_re_attach(d, node) ==
    [id \in DOMAIN d |->
        IF id \in ReAttachRows(d, node)
        THEN Row(d[id].generation + 1, node)
        ELSE d[id]]

\* Persistence::update_tenant_shard for one shard: the generation when one is given.
update_tenant_shard(d, id, gen) ==
    IF id \in DOMAIN d /\ gen # NoGen
    THEN [d EXCEPT ![id] = Row(gen, d[id].generation_pageserver)]
    ELSE d

\* Persistence::detach: placement Detached, generation unchanged.
persistence_detach(d, id) == d

\* Persistence::insert_tenant_shards: a unique violation leaves the table as it is.
insert_tenant_shards(d, id, row) == IF id \in DOMAIN d THEN d ELSE Put(d, id, row)

(***************************************************************************)
(* TenantShard::schedule                                                   *)
(***************************************************************************)
\* The attached nodes schedule may leave a shard with: none unless the policy
\* is Attached; the present one if there is one; else any node, or none when
\* no node can be scheduled.
ScheduleChoices(shard) ==
    IF shard.policy # "Attached" THEN {NoNode}
    ELSE IF shard.attached # NoNode THEN {shard.attached}
    ELSE OptNodes

(***************************************************************************)
(* History of the responses that carry a generation                        *)
(***************************************************************************)
\* A response hands generation g[id] to a pageserver, for each shard id of
\* the function g.
Returned(g) ==
    IF track = "returned"
    THEN /\ returned' = [id \in Shards |->
                IF id \in DOMAIN g THEN returned[id] \cup {g[id]} ELSE returned[id]]
         /\ retFresh' = (retFresh /\ \A id \in DOMAIN g : g[id] \notin returned[id])
    ELSE UNCHANGED <<returned, retFresh>>

\* A re_attach raises the generation of the shards of the function new in
\* memory, from old[id] to new[id].
Superseded(old, new) ==
    IF track = "superseded"
    THEN superseded' = [id \in Shards |->
             IF id \in DOMAIN new /\ old[id] # NoGen /\ new[id] > old[id]
             THEN superseded[id] \cup {old[id]}
             ELSE superseded[id]]
    ELSE UNCHANGED superseded

histVars == <<track, superseded, returned, retFresh>>

(***************************************************************************)
(* attach_hook                                                             *)
(***************************************************************************)
\* The first half of Service::attach_hook, up to its last database call, run
\* under the tenant's exclusive lock: insert a missing shard, then either
\* increment_generation and update_tenant_shard (ok says whether the second
\* call succeeded) or detach.  A failed call returns the error and leaves
\* memory as it is.
attach_hook_persist(id, node_id, generation_override, ok) ==
    /\ op[id].kind = "idle"
    /\ id \in DOMAIN tenants \/ id \notin created
    /\ LET insert == id \notin DOMAIN tenants
           inserted == insert /\ id \notin DOMAIN db
           db1 == IF insert
                  THEN insert_tenant_shards(db, id,
                           Row(IF generation_override = NoGen THEN 0 ELSE generation_override,
                               NoNode))
                  ELSE db
           tenants1 == IF inserted THEN Put(tenants, id, TenantShardNew("Attached")) ELSE tenants
       IN  /\ tenants' = tenants1
           /\ created' = IF inserted THEN created \cup {id} ELSE created
           /\ IF node_id # NoNode
              THEN IF id \in DOMAIN tenants1 /\ CanIncrement(db1, id)
                   THEN LET db2 == increment_generation(db1, id, node_id)
                        IN  IF ok
                            THEN /\ db' = update_tenant_shard(db2, id, NoGen)
                                 /\ op' = [op EXCEPT ![id] =
                                        [kind |-> "attach_hook", node |-> node_id,
                                         gen |-> db2[id].generation, policy |-> "Attached"]]
                            ELSE db' = db2 /\ op' = op
                   ELSE db' = db1 /\ op' = op
              ELSE /\ db' = persistence_detach(db1, id)
                   /\ op' = [op EXCEPT ![id] =
                          [kind |-> "attach_hook", node |-> NoNode,
                           gen |-> NoGen, policy |-> "Detached"]]
    /\ UNCHANGED <<ra, rec, histVars, genOthers>>

\* The generation attach_hook leaves in memory: the one it minted.
WrongAttachHookGeneration(shard, new_generation) == new_generation + 1

AttachHookGeneration(shard, new_generation) == new_generation

\* The second half of Service::attach_hook: under the state lock, assign the
\* new generation and policy, set intent.attached, and answer.
attach_hook_apply(id) ==
    /\ op[id].kind = "attach_hook"
    /\ LET new_generation == op[id].gen
           shard == tenants[id]
           g == IF new_generation # NoGen
                THEN AttachHookGeneration(shard, new_generation)
                ELSE shard.generation
       IN  /\ tenants' = [tenants EXCEPT ![id] =
                  TenantShard(g, op[id].policy, op[id].node)]
           /\ Returned([i \in IF op[id].node # NoNode THEN {id} ELSE {} |-> g])
    /\ op' = [op EXCEPT ![id] = IdleOp]
    /\ UNCHANGED <<db, ra, rec, created, track, superseded, genOthers>>

(***************************************************************************)
(* re_attach                                                               *)
(***************************************************************************)
\* The first half of Service::re_attach: Persistence::re_attach increments the
\* generation of every row stamped with the node and returns the new values.
\* (With no such row the handler changes no generation and answers with none.)
re_attach_persist(node_id) ==
    /\ ra[node_id].pc = "idle"
    /\ ReAttachRows(db, node_id) # {}
    /\ \A id \in ReAttachRows(db, node_id) : CanIncrement(db, id)
    /\ db' = persistence_re_attach(db, node_id)
    /\ ra' = [ra EXCEPT ![node_id] =
           [pc |-> "persisted",
            inc |-> [id \in ReAttachRows(db, node_id) |-> db[id].generation + 1]]]
    /\ UNCHANGED <<tenants, op, rec, created, histVars, genOthers>>

\* The generation re_attach leaves in memory for a shard it incremented.
ReAttachGeneration(shard, new_gen) == Max(shard.generation, new_gen)

\* The generation re_attach puts in its response for a shard it incremented.
WrongReAttachResponseGen(shard, new_gen) == shard.generation

ReAttachResponseGen(shard, new_gen) == new_gen

\* The second half of Service::re_attach: under the state lock, for every shard
\* of the map that was incremented, answer with the new generation and raise
\* the shard's generation to it.
re_attach_apply(node_id) ==
    /\ ra[node_id].pc = "persisted"
    /\ LET inc == ra[node_id].inc
           hit == DOMAIN inc \cap DOMAIN tenants
           newgen == [id \in hit |-> ReAttachGeneration(tenants[id], inc[id])]
           oldgen == [id \in hit |-> tenants[id].generation]
           resp == [id \in hit |-> ReAttachResponseGen(tenants[id], inc[id])]
       IN  /\ tenants' = [id \in DOMAIN tenants |->
                  IF id \in hit
                  THEN TenantShard(newgen[id], tenants[id].policy, tenants[id].attached)
                  ELSE tenants[id]]
           /\ Superseded(oldgen, newgen)
           /\ Returned(resp)
    /\ ra' = [ra EXCEPT ![node_id] = IdleRa]
    /\ UNCHANGED <<db, op, rec, created, track, genOthers>>

(***************************************************************************)
(* Reconciler and process_result                                           *)
(***************************************************************************)
\* TenantShard::spawn_reconciler (through maybe_reconcile_shard): the
\* reconciler takes a snapshot of the shard's generation and intent.
spawn_reconciler(id) ==
    /\ id \in DOMAIN tenants
    /\ ~rec[id].active
    /\ rec' = [rec EXCEPT ![id] =
           [active |-> TRUE, generation |-> tenants[id].generation,
            node |-> tenants[id].attached, incremented |-> FALSE]]
    /\ UNCHANGED <<tenants, db, op, ra, created, histVars, genOthers>>

\* The reconciler attaches the shard to a node: it mints a generation for
\* that node with increment_generation and carries it in its result.
reconciler_increment(id) ==
    /\ rec[id].active
    /\ ~rec[id].incremented
    /\ rec[id].node # NoNode
    /\ CanIncrement(db, id)
    /\ db' = increment_generation(db, id, rec[id].node)
    /\ rec' = [rec EXCEPT ![id].generation = db[id].generation + 1,
                          ![id].incremented = TRUE]
    /\ UNCHANGED <<tenants, op, ra, created, histVars, genOthers>>

\* The generation process_result leaves in memory.
ResultGeneration(shard, result_generation) == Max(shard.generation, result_generation)

\* Service::process_result, the generation it applies: a result for a shard
\* that is not in the map is dropped.
process_result(id) ==
    /\ rec[id].active
    /\ tenants' = IF id \in DOMAIN tenants
                  THEN [tenants EXCEPT ![id].generation =
                            ResultGeneration(tenants[id], rec[id].generation)]
                  ELSE tenants
    /\ rec' = [rec EXCEPT ![id] = IdleRec]
    /\ UNCHANGED <<db, op, ra, created, histVars, genOthers>>

(***************************************************************************)
(* do_tenant_create, tenant_create, tenant_location_config                 *)
(***************************************************************************)
\* do_tenant_create's initial generation, with a mistake: a Secondary tenant
\* starts in INITIAL_GENERATION.
WrongInitialGeneration(placement_policy, generation) ==
    IF generation = NoGen THEN INITIAL_GENERATION ELSE generation

\* do_tenant_create's initial generation.
InitialGeneration(placement_policy, generation) ==
    IF placement_policy = "Secondary"
    THEN generation
    ELSE IF generation = NoGen THEN INITIAL_GENERATION ELSE generation

\* The first half of do_tenant_create: persist the shard row; a unique
\* violation is an idempotent retry.
do_tenant_create_persist(id, placement_policy, generation) ==
    /\ db' = insert_tenant_shards(db, id,
                 Row(InitialGeneration(placement_policy, generation), NoNode))
    /\ op' = [op EXCEPT ![id] =
           [kind |-> "create", node |-> NoNode,
            gen |-> InitialGeneration(placement_policy, generation),
            policy |-> placement_policy]]
    /\ UNCHANGED <<tenants, ra, rec, created, histVars, genOthers>>

\* Service::tenant_create takes the tenant's exclusive lock and calls
\* do_tenant_create: for a new tenant id, or again for one that exists.
tenant_create(id, placement_policy, generation) ==
    /\ op[id].kind = "idle"
    /\ id \in DOMAIN tenants \/ id \notin created
    /\ do_tenant_create_persist(id, placement_policy, generation)

\* The second half of do_tenant_create: under the state lock, schedule the
\* shard that exists, or insert the new shard with its initial generation and
\* schedule it.
do_tenant_create_apply(id) ==
    /\ op[id].kind = "create"
    /\ LET shard == IF id \in DOMAIN tenants
                    THEN tenants[id]
                    ELSE TenantShard(op[id].gen, op[id].policy, NoNode)
       IN  \E n \in ScheduleChoices(shard) :
               tenants' = Put(tenants, id, TenantShard(shard.generation, shard.policy, n))
    /\ created' = created \cup {id}
    /\ op' = [op EXCEPT ![id] = IdleOp]
    /\ UNCHANGED <<db, ra, rec, histVars, genOthers>>

\* tenant_location_config_prepare: the generation an update sets, which is the
\* request's only for an attached mode on a shard that has no generation.
SetGeneration(shard, mode, generation) ==
    IF mode = "Attached" /\ shard.generation = NoGen THEN generation ELSE NoGen

\* The first half of Service::tenant_location_config, under the tenant's
\* exclusive lock: a tenant with no shard in the map is created, a tenant
\* with a shard is updated in the database.
tenant_location_config_persist(id, mode, generation) ==
    /\ op[id].kind = "idle"
    /\ IF id \in DOMAIN tenants
       THEN /\ db' = update_tenant_shard(db, id, SetGeneration(tenants[id], mode, generation))
            /\ op' = [op EXCEPT ![id] =
                   [kind |-> "location_config", node |-> NoNode,
                    gen |-> SetGeneration(tenants[id], mode, generation),
                    policy |-> mode]]
            /\ UNCHANGED <<tenants, ra, rec, created, histVars, genOthers>>
       ELSE /\ id \notin created
            /\ do_tenant_create_persist(id, mode,
                   IF mode = "Attached" THEN generation ELSE NoGen)

\* The second half of the update: under the state lock, assign policy and the
\* generation if one is set, and schedule.
tenant_location_config_apply(id) ==
    /\ op[id].kind = "location_config"
    /\ IF id \in DOMAIN tenants
       THEN LET shard == TenantShard(
                    IF op[id].gen # NoGen THEN op[id].gen ELSE tenants[id].generation,
                    op[id].policy, tenants[id].attached)
            IN  \E n \in ScheduleChoices(shard) :
                    tenants' = [tenants EXCEPT ![id] =
                                   TenantShard(shard.generation, shard.policy, n)]
       ELSE tenants' = tenants
    /\ op' = [op EXCEPT ![id] = IdleOp]
    /\ UNCHANGED <<db, ra, rec, created, histVars, genOthers>>

(***************************************************************************)
(* tenant_delete                                                           *)
(***************************************************************************)
\* Service::tenant_delete, first step under the tenant's exclusive lock:
\* policy Detached in memory and the intent cleared by schedule.
tenant_delete_detach(id) ==
    /\ op[id].kind = "idle"
    /\ id \in DOMAIN tenants
    /\ tenants' = [tenants EXCEPT ![id] = TenantShard(tenants[id].generation, "Detached", NoNode)]
    /\ op' = [op EXCEPT ![id] = [IdleOp EXCEPT !.kind = "delete"]]
    /\ UNCHANGED <<db, ra, rec, created, histVars, genOthers>>

\* tenant_delete returns an error: the wait for the detach timed out, the
\* pageserver's deletion failed, or delete_tenant failed.
tenant_delete_error(id) ==
    /\ op[id].kind = "delete"
    /\ op' = [op EXCEPT ![id] = IdleOp]
    /\ UNCHANGED <<tenants, db, ra, rec, created, histVars, genOthers>>

\* tenant_delete after the wait for the detach reconcile and the pageserver's
\* deletion: Persistence::delete_tenant.
tenant_delete_persist(id) ==
    /\ op[id].kind = "delete"
    /\ ~rec[id].active
    /\ db' = Remove(db, id)
    /\ op' = [op EXCEPT ![id].kind = "delete_persisted"]
    /\ UNCHANGED <<tenants, ra, rec, created, histVars, genOthers>>

\* tenant_delete's last step: the shards leave the map.
tenant_delete_apply(id) ==
    /\ op[id].kind = "delete_persisted"
    /\ tenants' = Remove(tenants, id)
    /\ superseded' = [superseded EXCEPT ![id] = {}]
    /\ op' = [op EXCEPT ![id] = IdleOp]
    /\ UNCHANGED <<db, ra, rec, created, track, returned, retFresh, genOthers>>

(***************************************************************************)
(* The generation protocol: specification                                  *)
(***************************************************************************)
\* A start request that was not made yet.
IdleTask ==
    [pc |-> "idle", kind |-> "none", node |-> NoNode, last_inspected_shard |-> 0,
     waiters |-> 0, plan |-> <<>>, cancelled |-> FALSE, result |-> "none",
     planned |-> <<>>, before |-> <<>>]

\* No nodes and no drain or fill: the other parts of the model leave this state alone.
OpsIdle ==
    /\ nodes = <<>>
    /\ node_rows = <<>>
    /\ intents = <<>>
    /\ ongoing_operation = NoOperation
    /\ ops = [r \in 1..MaxOps |-> IdleTask]

\* ReconcilerWaiter: the shard and the sequence it waits for.
ReconcilerWaiter(id, seq) == [id |-> id, seq |-> seq, status |-> "InProgress"]

NoWaiter == [id |-> 0, seq |-> 0, status |-> "none"]

\* No shard to reconcile: the other parts of the model leave this state alone.
RcIdle ==
    /\ rshards = <<>>
    /\ permits = reconciler_concurrency
    /\ delayed_reconcile_rx = <<>>
    /\ tasks = {}
    /\ exiting = 0
    /\ result_rx = <<>>
    /\ waits = [w \in 1..MaxWaits |-> NoWaiter]
    /\ seq_wait = <<>>
    /\ applied = <<>>
    /\ reconciles_spawned = -1

\* No node and no shard to place: the other parts of the model leave this state alone.
PlIdle ==
    /\ pnodes = <<>>
    /\ ptenants = <<>>
    /\ scheduler = <<>>

\* No re_attach between its two steps.
IdleReAttach == [pc |-> "idle", node_id |-> NoNode, inc |-> <<>>, before |-> <<>>, scheduling |-> "none"]

\* No node_configure between its two steps.
IdleConfigure == [pc |-> "idle", node_id |-> NoNode, scheduling |-> "none"]

\* No re_attach with its node and shards: the other parts of the model leave this state alone.
ReIdle ==
    /\ re_nodes = <<>>
    /\ re_node_rows = <<>>
    /\ re_tenants = <<>>
    /\ re_rows = <<>>
    /\ re_req = IdleReAttach
    /\ re_cfg = IdleConfigure
    /\ re_response = <<>>

\* No tenant_create between its two steps.
IdleCreate ==
    [pc |-> "idle", count |-> 0, placement_policy |-> "none", generation |-> NoGen,
     config |-> 0, violation |-> FALSE]

\* No tenant_create with its nodes and shards: the other parts of the model leave this state alone.
CrIdle ==
    /\ cr_nodes = <<>>
    /\ cr_tenants = <<>>
    /\ cr_rows = <<>>
    /\ cr_req = IdleCreate
    /\ cr_response = <<>>

\* No tenant_delete in progress.
IdleDelete ==
    [pc |-> "idle", shard_ids |-> <<>>, waiters |-> <<>>, waited |-> {}, results |-> <<>>,
     persisted |-> FALSE]

\* No tenant to delete: the other parts of the model leave this state alone.
TdIdle ==
    /\ td_nodes = <<>>
    /\ td_tenants = <<>>
    /\ td_rows = {}
    /\ td_rec = <<>>
    /\ td_req = IdleDelete
    /\ td_response = "none"


\* No request for the tenant's lock.
IdleLockRequest == [kind |-> "none", pc |-> "idle", result |-> "none", contacted |-> FALSE]

\* No abort job.
NoAbort == [state |-> "none", attempts |-> 0]

\* No request on the tenant: the other parts of the model leave this state alone.
LkIdle ==
    /\ lk_guards = {}
    /\ lk_req = <<>>
    /\ lk_splitting = FALSE
    /\ lk_abort = NoAbort
    /\ lk_cancel = FALSE
    /\ lk_part_split = FALSE

\* No call of a function of pageserver_api::models.
NoCall == [fn |-> "none"]

\* No call: the other parts of the model leave this state alone.
ApiIdle ==
    /\ api_call = NoCall

\* No shard whose sequence is followed: the other parts of the model leave this state alone.
SqIdle ==
    /\ sq_nodes = <<>>
    /\ sq_shard = <<>>

\* No shard whose observed state is followed: the other parts of the model leave this state alone.
ObIdle ==
    /\ ob_shard = <<>>
    /\ ob_tasks = {}
    /\ ob_result_rx = <<>>
    /\ ob_startup_complete = FALSE
    /\ ob_describe = "none"

\* No invocation of autosplit_tenants: the other parts of the model leave this state alone.
AuIdle ==
    /\ au_call = NoCall

\* No optimization under validation: the other parts of the model leave this state alone.
OvIdle ==
    /\ ov_call = NoCall

\* No Service being spawned: the other parts of the model leave this state alone.
BgIdle ==
    /\ bg_completions = {}
    /\ bg_startup = "none"
    /\ bg_cancel = FALSE
    /\ bg_gate_closed = FALSE
    /\ bg_tasks = <<>>
    /\ bg_rounds = <<>>

\* No node_configure under study: the other parts of the model leave this state alone.
NcIdle ==
    /\ nc_nodes = <<>>
    /\ nc_tenants = <<>>
    /\ nc_call = NoCall

\* No split request under study: the other parts of the model leave this state alone.
PsIdle == ps_call = NoCall

\* No timeline deletion under study: the other parts of the model leave this state alone.
TlIdle ==
    /\ tl_timeline = <<>>
    /\ tl_req = <<>>

\* The parts of the model that follow tenant_create are idle.
LaterIdle ==
    /\ TdIdle
    /\ LkIdle
    /\ ApiIdle
    /\ SqIdle
    /\ ObIdle
    /\ AuIdle
    /\ OvIdle
    /\ BgIdle
    /\ NcIdle
    /\ PsIdle
    /\ TlIdle

\* No split in progress: the other parts of the model leave the split state alone.
SplitIdle ==
    /\ mem = <<>>
    /\ rows = <<>>
    /\ sp = [pc |-> "idle", old_shard_count |-> 0, new_shard_count |-> 0, failed |-> FALSE]
    /\ startup_abort = 0

InitGen(history) ==
    /\ SplitIdle
    /\ OpsIdle
    /\ RcIdle
    /\ PlIdle
    /\ ReIdle
    /\ CrIdle
    /\ LaterIdle
    /\ track = history
    /\ tenants = <<>>
    /\ db = <<>>
    /\ op = [id \in Shards |-> IdleOp]
    /\ ra = [n \in Nodes |-> IdleRa]
    /\ rec = [id \in Shards |-> IdleRec]
    /\ created = {}
    /\ superseded = [id \in Shards |-> {}]
    /\ returned = [id \in Shards |-> {}]
    /\ retFresh = TRUE

Init ==
    /\ InitGen("none")
    /\ vreq = <<>>
    /\ vresp = <<>>

InitSuperseded ==
    /\ InitGen("superseded")
    /\ vreq = <<>>
    /\ vresp = <<>>

InitReturned ==
    /\ InitGen("returned")
    /\ vreq = <<>>
    /\ vresp = <<>>

AttachedPolicies == {"Attached", "Secondary"}

Next ==
    \/ \E id \in Shards, n \in OptNodes, g \in {NoGen, 1}, ok \in BOOLEAN :
           attach_hook_persist(id, n, g, ok)
    \/ \E id \in Shards : attach_hook_apply(id)
    \/ \E n \in Nodes : re_attach_persist(n)
    \/ \E n \in Nodes : re_attach_apply(n)
    \/ \E id \in Shards : spawn_reconciler(id)
    \/ \E id \in Shards : reconciler_increment(id)
    \/ \E id \in Shards : process_result(id)
    \/ \E id \in Shards, p \in AttachedPolicies, g \in {NoGen, 1} : tenant_create(id, p, g)
    \/ \E id \in Shards : do_tenant_create_apply(id)
    \/ \E id \in Shards, m \in Policies, g \in {NoGen, 2} :
           tenant_location_config_persist(id, m, g)
    \/ \E id \in Shards : tenant_location_config_apply(id)
    \/ \E id \in Shards : tenant_delete_detach(id)
    \/ \E id \in Shards : tenant_delete_error(id)
    \/ \E id \in Shards : tenant_delete_persist(id)
    \/ \E id \in Shards : tenant_delete_apply(id)

Spec == Init /\ [][Next]_vars

\* validate on every map and request of the bounds.
InitValidate ==
    /\ SplitIdle
    /\ OpsIdle
    /\ RcIdle
    /\ PlIdle
    /\ ReIdle
    /\ CrIdle
    /\ LaterIdle
    /\ tenants \in ValidateMaps
    /\ vreq \in ValidateRequests
    /\ vresp = <<>>
    /\ db = <<>>
    /\ op = [id \in Shards |-> IdleOp]
    /\ ra = [n \in Nodes |-> IdleRa]
    /\ rec = [id \in Shards |-> IdleRec]
    /\ created = {}
    /\ track = "none"
    /\ superseded = [id \in Shards |-> {}]
    /\ returned = [id \in Shards |-> {}]
    /\ retFresh = TRUE

NextValidate == validate

SpecValidate == InitValidate /\ [][NextValidate]_vars

SpecSuperseded == InitSuperseded /\ [][Next]_vars

SpecReturned == InitReturned /\ [][Next]_vars

(***************************************************************************)
(* Shard split                                                             *)
(***************************************************************************)
\* The shards of one tenant.  A shard id is <<shard count, shard number>>.
ShardCounts == 1..MaxShardCount

AllShards(count) == {<<count, n>> : n \in 0..(count - 1)}

\* TenantShardId::split: the children of a shard at a larger count.
ChildIds(parent_id, new_shard_count) ==
    {<<new_shard_count, parent_id[2] + i * parent_id[1]>> :
        i \in 0..((new_shard_count \div parent_id[1]) - 1)}

CountsOf(m) == {id[1] : id \in DOMAIN m}

\* A shard of the map and a row of the table: SplitState, and the node of
\* intent.attached or of generation_pageserver.
ShardState(s, node) == [splitting |-> s, node |-> node]

\* The parent of a shard id among the ids of a smaller count.
ParentOf(child_id, ids) ==
    CHOOSE p \in ids : child_id \in ChildIds(p, child_id[1])

GenQuiet ==
    /\ tenants = <<>>
    /\ db = <<>>
    /\ op = [id \in Shards |-> IdleOp]
    /\ ra = [n \in Nodes |-> IdleRa]
    /\ rec = [id \in Shards |-> IdleRec]
    /\ created = {}
    /\ superseded = [id \in Shards |-> {}]
    /\ returned = [id \in Shards |-> {}]
    /\ retFresh = TRUE

GenIdle == GenQuiet /\ track = "none"

\* Persistence::begin_shard_split: in one transaction, the parents are marked
\* Splitting and the children (child_tsps, a function of their ids) are
\* inserted.
begin_shard_split(r, old_shard_count, child_tsps) ==
    [id \in DOMAIN r \cup DOMAIN child_tsps |->
        IF id \in DOMAIN r
        THEN ShardState("Splitting", r[id].node)
        ELSE child_tsps[id]]

\* do_tenant_shard_split's child_tsps: every child of every target is
\* Splitting, with the target's node.
ChildTsps(m, new_shard_count) ==
    [id \in UNION {ChildIds(p, new_shard_count) : p \in DOMAIN m} |->
        ShardState("Splitting", m[ParentOf(id, DOMAIN m)].node)]

\* Persistence::complete_shard_split: in one transaction, the parents are
\* deleted and the splitting state of the tenant's rows is cleared.
complete_shard_split(r, old_shard_count) ==
    [id \in {i \in DOMAIN r : i[1] # old_shard_count} |-> ShardState("Idle", r[id].node)]

\* Persistence::abort_shard_split answers Complete when the tenant has no row
\* of another count than the new one: the split was completed.
AbortStatus(r, new_shard_count) ==
    IF \E id \in DOMAIN r : id[1] # new_shard_count THEN "Aborted" ELSE "Complete"

\* Persistence::abort_shard_split: in one transaction, the parents are set
\* Idle and the rows of the new count are deleted; nothing when Complete.
abort_shard_split(r, new_shard_count) ==
    IF AbortStatus(r, new_shard_count) = "Aborted"
    THEN [id \in {i \in DOMAIN r : i[1] # new_shard_count} |-> ShardState("Idle", r[id].node)]
    ELSE r

SplitRequest(pc, old_shard_count, new_shard_count, failed) ==
    [pc |-> pc, old_shard_count |-> old_shard_count,
     new_shard_count |-> new_shard_count, failed |-> failed]

\* prepare_tenant_shard_split answers Split: the tenant's shards in memory
\* have one count, smaller than the requested one, and are all attached.
CanSplit(m, new_shard_count) ==
    /\ DOMAIN m # {}
    /\ \A id \in DOMAIN m : m[id].node # NoNode
    /\ \A id \in DOMAIN m : id[1] < new_shard_count /\ new_shard_count % id[1] = 0
    /\ Cardinality(CountsOf(m)) = 1

\* Service::tenant_shard_split up to the database: the tenant's exclusive
\* lock, prepare_tenant_shard_split, and the first step of
\* do_tenant_shard_split, which drops secondary locations and waits for the
\* reconcile (ok: it did not fail).  An error queues the abort job.
tenant_shard_split(new_shard_count, ok) ==
    /\ sp.pc = "idle"
    /\ CanSplit(mem, new_shard_count)
    /\ LET old_shard_count == CHOOSE c \in CountsOf(mem) : TRUE
       IN  sp' = SplitRequest(IF ok THEN "prepared" ELSE "abort",
                              old_shard_count, new_shard_count, ~ok)
    /\ startup_abort' = 0
    /\ UNCHANGED <<mem, rows, splitOthers>>

\* do_tenant_shard_split calls begin_shard_split: it succeeds, fails, or
\* commits and reports an error.
split_begin(outcome) ==
    /\ sp.pc = "prepared"
    /\ rows' = IF outcome = "error" THEN rows
               ELSE begin_shard_split(rows, sp.old_shard_count,
                                      ChildTsps(mem, sp.new_shard_count))
    /\ sp' = IF outcome = "ok" THEN [sp EXCEPT !.pc = "begun"]
             ELSE [sp EXCEPT !.pc = "abort", !.failed = TRUE]
    /\ startup_abort' = 0
    /\ UNCHANGED <<mem, splitOthers>>

\* After begin_shard_split: the fail point, else the parents are Splitting in
\* memory.
split_apply_splitting(ok) ==
    /\ sp.pc = "begun"
    /\ IF ok
       THEN /\ mem' = [id \in DOMAIN mem |-> ShardState("Splitting", mem[id].node)]
            /\ sp' = [sp EXCEPT !.pc = "splitting"]
       ELSE /\ mem' = mem
            /\ sp' = [sp EXCEPT !.pc = "abort", !.failed = TRUE]
    /\ startup_abort' = 0
    /\ UNCHANGED <<rows, splitOthers>>

\* The pageservers split every parent, or one of the calls fails.
split_remote(ok) ==
    /\ sp.pc = "splitting"
    /\ sp' = IF ok THEN [sp EXCEPT !.pc = "split_remote"]
             ELSE [sp EXCEPT !.pc = "abort", !.failed = TRUE]
    /\ startup_abort' = 0
    /\ UNCHANGED <<mem, rows, splitOthers>>

\* do_tenant_shard_split calls complete_shard_split: it succeeds, fails, or
\* commits and reports an error.
split_complete(outcome) ==
    /\ sp.pc = "split_remote"
    /\ rows' = IF outcome = "error" THEN rows
               ELSE complete_shard_split(rows, sp.old_shard_count)
    /\ sp' = IF outcome = "ok" THEN [sp EXCEPT !.pc = "completed"]
             ELSE [sp EXCEPT !.pc = "abort", !.failed = TRUE]
    /\ startup_abort' = 0
    /\ UNCHANGED <<mem, splitOthers>>

\* Service::tenant_shard_split_commit_inmem: every shard of the tenant is
\* removed from the map and its children are inserted, Idle, attached where
\* the parent was.
WrongCommitInmem(m, new_shard_count) ==
    [id \in DOMAIN m \cup UNION {ChildIds(p, new_shard_count) : p \in DOMAIN m} |->
        IF id \in DOMAIN m THEN m[id] ELSE ShardState("Idle", m[ParentOf(id, DOMAIN m)].node)]

tenant_shard_split_commit_inmem(m, new_shard_count) ==
    [id \in UNION {ChildIds(p, new_shard_count) : p \in DOMAIN m} |->
        ShardState("Idle", m[ParentOf(id, DOMAIN m)].node)]

\* After complete_shard_split: the fail point, else the map is updated and
\* the request answers.
split_commit(ok) ==
    /\ sp.pc = "completed"
    /\ IF ok
       THEN /\ mem' = tenant_shard_split_commit_inmem(mem, sp.new_shard_count)
            /\ sp' = [sp EXCEPT !.pc = "idle"]
       ELSE /\ mem' = mem
            /\ sp' = [sp EXCEPT !.pc = "abort", !.failed = TRUE]
    /\ startup_abort' = 0
    /\ UNCHANGED <<rows, splitOthers>>

\* Service::abort_tenant_shard_split, the database call of the abort job,
\* which holds the tenant's lock: on an error the job tries again; Complete
\* updates the map as the split would have and ends the job.
abort_persist(ok) ==
    /\ sp.pc = "abort"
    /\ IF ~ok
       THEN UNCHANGED <<mem, rows, sp>>
       ELSE /\ rows' = abort_shard_split(rows, sp.new_shard_count)
            /\ IF AbortStatus(rows, sp.new_shard_count) = "Complete"
               THEN /\ mem' = tenant_shard_split_commit_inmem(mem, sp.new_shard_count)
                    /\ sp' = [sp EXCEPT !.pc = "idle"]
               ELSE /\ mem' = mem
                    /\ sp' = [sp EXCEPT !.pc = "aborted"]
    /\ startup_abort' = 0
    /\ UNCHANGED splitOthers

\* abort_tenant_shard_split in memory: every shard of another count than the
\* new one is Idle again (schedule leaves an attached shard where it is), and
\* the shards of the new count are dropped.
AbortInmem(m, new_shard_count) ==
    [id \in {i \in DOMAIN m : i[1] # new_shard_count} |-> ShardState("Idle", m[id].node)]

\* abort_tenant_shard_split after Aborted: the map is cleaned up, then the
\* children are detached on the pageservers; when a detach fails the job
\* tries again.
abort_cleanup(ok) ==
    /\ sp.pc = "aborted"
    /\ mem' = AbortInmem(mem, sp.new_shard_count)
    /\ sp' = [sp EXCEPT !.pc = IF ok THEN "idle" ELSE "abort"]
    /\ startup_abort' = 0
    /\ UNCHANGED <<rows, splitOthers>>

\* Service::spawn, the shards it loads: of a tenant with rows of more than
\* one count, the rows of the smallest count, Idle; else every row.
WrongSpawnShards(r) == r

SpawnShards(r) ==
    IF Cardinality(CountsOf(r)) > 1
    THEN LET count_min == CHOOSE c \in CountsOf(r) : \A d \in CountsOf(r) : c <= d
         IN  [id \in {i \in DOMAIN r : i[1] = count_min} |-> ShardState("Idle", r[id].node)]
    ELSE r

\* The process stops at any point and Service::spawn runs: it aborts the
\* split of a tenant with rows of more than one count, on the largest
\* count, and builds the map from the rows it keeps.
spawn ==
    /\ LET count_max == CHOOSE c \in CountsOf(rows) : \A d \in CountsOf(rows) : c >= d
           mixed == Cardinality(CountsOf(rows)) > 1
       IN  /\ rows' = IF mixed THEN abort_shard_split(rows, count_max) ELSE rows
           /\ startup_abort' = IF mixed THEN count_max ELSE 0
    /\ mem' = SpawnShards(rows)
    /\ sp' = SplitRequest("idle", 0, 0, FALSE)
    /\ UNCHANGED splitOthers

Outcomes == {"ok", "error", "lost"}

\* A tenant created with some shard count.
InitSplit ==
    /\ GenIdle
    /\ OpsIdle
    /\ RcIdle
    /\ PlIdle
    /\ ReIdle
    /\ CrIdle
    /\ LaterIdle
    /\ vreq = <<>>
    /\ vresp = <<>>
    /\ \E c \in ShardCounts : \E attached \in [AllShards(c) -> OptNodes] :
          /\ mem = [id \in AllShards(c) |-> ShardState("Idle", attached[id])]
          /\ rows = [id \in AllShards(c) |-> ShardState("Idle", attached[id])]
    /\ sp = SplitRequest("idle", 0, 0, FALSE)
    /\ startup_abort = 0

NextSplit ==
    \/ \E c \in ShardCounts, ok \in BOOLEAN : tenant_shard_split(c, ok)
    \/ \E o \in Outcomes : split_begin(o)
    \/ \E ok \in BOOLEAN : split_apply_splitting(ok)
    \/ \E ok \in BOOLEAN : split_remote(ok)
    \/ \E o \in Outcomes : split_complete(o)
    \/ \E ok \in BOOLEAN : split_commit(ok)
    \/ \E ok \in BOOLEAN : abort_persist(ok)
    \/ \E ok \in BOOLEAN : abort_cleanup(ok)
    \/ spawn

SpecSplit == InitSplit /\ [][NextSplit]_vars

(***************************************************************************)
(* Node drain and fill                                                     *)
(*                                                                         *)
(* Shard ids are integers in the order of the tenant map (a BTreeMap keyed *)
(* by tenant id, then shard number): the last TenantSize ids are the       *)
(* shards of one tenant, each id before them is an unsharded tenant.       *)
(***************************************************************************)
ShardIds == 1..NumShardIds

Min(a, b) == IF a <= b THEN a ELSE b

TenantOf(tid) == Min(tid, NumShardIds - TenantSize + 1)

\* The shards of the unsharded tenants.
UnshardedIds == {tid \in ShardIds : tid < NumShardIds - TenantSize + 1}

\* The shards of the sharded tenant.
ShardedIds == ShardIds \ UnshardedIds

TenantIds == {TenantOf(tid) : tid \in ShardIds}

\* tid.shard_count.count()
ShardCountOf(tid) == Cardinality({j \in ShardIds : TenantOf(j) = TenantOf(tid)})

SetMin(S) == CHOOSE x \in S : \A y \in S : x <= y

RECURSIVE SortedIds(_)
\* The keys of a map in iteration order.
SortedIds(S) ==
    IF S = {} THEN <<>> ELSE <<SetMin(S)>> \o SortedIds(S \ {SetMin(S)})

SchedulingPolicies == {"Active", "Pause", "Draining", "Filling", "PauseForRestart"}

Node(scheduling, available) == [scheduling |-> scheduling, available |-> available]

Intent(attached, secondary) == [attached |-> attached, secondary |-> secondary]

\* Node::may_schedule
MaySchedule(node) == node.available /\ node.scheduling \in {"Active", "Filling"}

\* Scheduler: the attached-shard counter of a node, in sync with the intents.
AttachedCount(m, node_id) == Cardinality({tid \in DOMAIN m : m[tid].attached = node_id})

\* Scheduler::expected_attached_shard_count: total attachments / available nodes.
expected_attached_shard_count(m, nd) ==
    LET total == Cardinality({tid \in DOMAIN m : m[tid].attached # NoNode})
        avail == Cardinality({n \in DOMAIN nd : nd[n].available})
    IN  IF avail = 0 THEN 0 ELSE total \div avail

\* Scheduler::compute_fill_requirement: the attachments the node should
\* receive to reach the cluster average.
compute_fill_requirement(m, nd, node_id) ==
    LET expected == expected_attached_shard_count(m, nd)
        attached == AttachedCount(m, node_id)
    IN  IF attached < expected THEN expected - attached ELSE 0

RECURSIVE NodesByLoad(_, _)
NodesByLoad(m, S) ==
    IF S = {} THEN <<>>
    ELSE LET top == CHOOSE n \in S : \A o \in S :
                        \/ AttachedCount(m, n) > AttachedCount(m, o)
                        \/ AttachedCount(m, n) = AttachedCount(m, o) /\ n <= o
         IN  <<<<top, AttachedCount(m, top)>>>> \o NodesByLoad(m, S \ {top})

\* Scheduler::nodes_by_attached_shard_count: (node, attached count), largest first.
nodes_by_attached_shard_count(m, nd) == NodesByLoad(m, DOMAIN nd)

\* TenantShard::reschedule_to_secondary(promote_to, scheduler): the attached
\* location becomes a secondary and promote_to, or without one a schedulable
\* secondary, or without one any schedulable node, becomes the attached
\* location; fails when there is no such node.  The scheduler's choice among
\* equals is the node `preferred` when it is one of them.
reschedule_to_secondary(intent, promote_to, nd, preferred) ==
    LET secs == {n \in intent.secondary : MaySchedule(nd[n])}
        any == {n \in DOMAIN nd : MaySchedule(nd[n]) /\ n # intent.attached}
        cands == IF promote_to # NoNode THEN {promote_to}
                 ELSE IF secs # {} THEN secs ELSE any
        to == IF preferred \in cands THEN preferred ELSE SetMin(cands)
        demoted == IF intent.attached = NoNode THEN {} ELSE {intent.attached}
    IN  IF cands = {} THEN [ok |-> FALSE, intent |-> intent]
        ELSE [ok |-> TRUE,
              intent |-> Intent(to, (intent.secondary \ {to}) \cup demoted)]

\* Service::node_configure with a scheduling policy and no availability.
NodeConfigure(nd, node_id, scheduling) == [nd EXCEPT ![node_id].scheduling = scheduling]

\* Persistence::update_node: the scheduling policy of the node's row.
update_node(table, node_id, scheduling) == [table EXCEPT ![node_id] = scheduling]

(***************************************************************************)
(* fill_node_plan                                                          *)
(***************************************************************************)
\* The shards that have node_id as a secondary, by the node they are attached to.
TidsByNode(m, node_id) ==
    LET primaries == {m[tid].attached : tid \in
                        {t \in DOMAIN m : node_id \in m[t].secondary /\ m[t].attached # NoNode}}
    IN  [p \in primaries |->
            SortedIds({t \in DOMAIN m : node_id \in m[t].secondary /\ m[t].attached = p})]

WrongMaxPromoteForTenant(tid, node_count) == ShardCountOf(tid)

MaxPromoteForTenant(tid, node_count) == Max(ShardCountOf(tid) \div node_count, 1)

PromotedOf(plan, tenant) == Cardinality({i \in 1..Len(plan) : TenantOf(plan[i]) = tenant})

RECURSIVE TakeFrom(_, _, _, _, _)
\* The inner loop of fill_node_plan: pop shards of one donor until `take` were planned.
TakeFrom(node_id, take, plan, tids_by_node, node_count) ==
    IF take = 0 \/ node_id \notin DOMAIN tids_by_node
    THEN [plan |-> plan, tids_by_node |-> tids_by_node]
    ELSE IF tids_by_node[node_id] = <<>>
    THEN [plan |-> plan, tids_by_node |-> Remove(tids_by_node, node_id)]
    ELSE LET tids == tids_by_node[node_id]
             tid == tids[Len(tids)]
             rest == [tids_by_node EXCEPT ![node_id] = SubSeq(tids, 1, Len(tids) - 1)]
         IN  IF PromotedOf(plan, TenantOf(tid)) < MaxPromoteForTenant(tid, node_count)
             THEN TakeFrom(node_id, take - 1, Append(plan, tid), rest, node_count)
             ELSE TakeFrom(node_id, take, plan, rest, node_count)

RECURSIVE FillPlanFrom(_, _, _, _, _, _, _)
\* The outer loop of fill_node_plan over the donors, most loaded first.
FillPlanFrom(nodes_by_load, plan, tids_by_node, nd, fill_requirement, expected_attached, i) ==
    IF i > Len(nodes_by_load) THEN plan
    ELSE LET node_id == nodes_by_load[i][1]
             attached == nodes_by_load[i][2]
         IN  IF ~nd[node_id].available
             THEN FillPlanFrom(nodes_by_load, plan, tids_by_node, nd,
                               fill_requirement, expected_attached, i + 1)
             ELSE IF \/ Len(plan) >= fill_requirement
                     \/ DOMAIN tids_by_node = {}
                     \/ attached <= expected_attached
             THEN plan
             ELSE LET take == Min(attached - expected_attached, fill_requirement - Len(plan))
                      r == TakeFrom(node_id, take, plan, tids_by_node, Cardinality(DOMAIN nd))
                  IN  FillPlanFrom(nodes_by_load, r.plan, r.tids_by_node, nd,
                                   fill_requirement, expected_attached, i + 1)

fill_node_plan(m, nd, node_id) ==
    FillPlanFrom(nodes_by_attached_shard_count(m, nd), <<>>, TidsByNode(m, node_id), nd,
                 compute_fill_requirement(m, nd, node_id),
                 expected_attached_shard_count(m, nd), 1)

(***************************************************************************)
(* start_node_drain, start_node_fill and the cancel requests               *)
(***************************************************************************)
Operation(kind, node_id) == <<kind, node_id>>

\* OperationHandler: the operation and the cancellation token of request r.
OperationHandler(kind, node_id, r) == [operation |-> Operation(kind, node_id), cancel |-> r]

\* A start request returns an error: nothing was changed.
Refuse(r, error) ==
    /\ error \in {"PreconditionFailed", "ResourceUnavailable", "Conflict"}
    /\ ops' = [ops EXCEPT ![r] = IdleTask]
    /\ UNCHANGED <<nodes, node_rows, intents, ongoing_operation>>

\* A start request passed its checks and goes on to node_configure.
Proceed(r, kind, node_id) ==
    /\ ops' = [ops EXCEPT ![r] = [IdleTask EXCEPT !.pc = "configure", !.kind = kind,
                                                   !.node = node_id]]
    /\ UNCHANGED <<nodes, node_rows, intents, ongoing_operation>>

\* Requests are numbered in the order they are made.
NextRequest(r) == ops[r].pc = "idle" /\ \A q \in 1..(r - 1) : ops[q].pc # "idle"

\* start_node_drain up to the match on the node's policy: what it reads
\* under the read lock and the errors it returns from there.
start_node_drain(r, node_id) ==
    /\ NextRequest(r)
    /\ node_id \in DOMAIN nodes
    /\ LET node_policy == nodes[node_id].scheduling
           schedulable_nodes_count ==
               Cardinality({n \in DOMAIN nodes : MaySchedule(nodes[n])})
       IN  IF ongoing_operation # NoOperation THEN Refuse(r, "PreconditionFailed")
           ELSE IF ~nodes[node_id].available THEN Refuse(r, "ResourceUnavailable")
           ELSE IF schedulable_nodes_count = 0 THEN Refuse(r, "PreconditionFailed")
           ELSE IF node_policy \in {"Active", "Pause"} THEN Proceed(r, "drain", node_id)
           ELSE IF node_policy = "Draining" THEN Refuse(r, "Conflict")
           ELSE Refuse(r, "PreconditionFailed")
    /\ UNCHANGED opsOthers

\* start_node_fill up to the match on the node's policy.
start_node_fill(r, node_id) ==
    /\ NextRequest(r)
    /\ node_id \in DOMAIN nodes
    /\ LET node_policy == nodes[node_id].scheduling
           total_nodes_count == Cardinality(DOMAIN nodes)
       IN  IF ongoing_operation # NoOperation THEN Refuse(r, "PreconditionFailed")
           ELSE IF ~nodes[node_id].available THEN Refuse(r, "ResourceUnavailable")
           ELSE IF total_nodes_count <= 1 THEN Refuse(r, "PreconditionFailed")
           ELSE IF node_policy = "Active" THEN Proceed(r, "fill", node_id)
           ELSE IF node_policy = "Filling" THEN Refuse(r, "Conflict")
           ELSE Refuse(r, "PreconditionFailed")
    /\ UNCHANGED opsOthers

\* The rest of a start request: node_configure to Draining or Filling, the
\* handler written to ongoing_operation, the background task spawned.
start_operation(r, ok) ==
    /\ ops[r].pc = "configure"
    /\ LET t == ops[r]
       IN  IF ok
           THEN /\ nodes' = NodeConfigure(nodes, t.node,
                               IF t.kind = "drain" THEN "Draining" ELSE "Filling")
                /\ node_rows' = update_node(node_rows, t.node,
                               IF t.kind = "drain" THEN "Draining" ELSE "Filling")
                /\ ongoing_operation' = OperationHandler(t.kind, t.node, r)
                /\ ops' = [ops EXCEPT ![r].pc = IF t.kind = "drain" THEN "running"
                                                ELSE "spawned"]
           ELSE \* node_configure failed: the request returns its error
                /\ ops' = [ops EXCEPT ![r] = [IdleTask EXCEPT !.pc = "done"]]
                /\ UNCHANGED <<nodes, node_rows, ongoing_operation>>
    /\ UNCHANGED <<intents, opsOthers>>

\* cancel_node_drain and cancel_node_fill: the token of the handler in
\* ongoing_operation is cancelled when it is this operation on this node.
CancelOperation(kind, policy, node_id) ==
    /\ node_id \in DOMAIN nodes
    /\ nodes[node_id].available
    /\ nodes[node_id].scheduling = policy
    /\ ongoing_operation # NoOperation
    /\ ongoing_operation.operation = Operation(kind, node_id)
    /\ ops' = [ops EXCEPT ![ongoing_operation.cancel].cancelled = TRUE]
    /\ UNCHANGED <<nodes, node_rows, intents, ongoing_operation, opsOthers>>

cancel_node_drain(node_id) == CancelOperation("drain", "Draining", node_id)

cancel_node_fill(node_id) == CancelOperation("fill", "Filling", node_id)

(***************************************************************************)
(* The background task: drain_node, fill_node and the scopeguard           *)
(***************************************************************************)
\* A task that ends without its scopeguard: the handler stays in ongoing_operation.
WrongTaskEnd(r, result) ==
    /\ UNCHANGED ongoing_operation
    /\ ops' = [ops EXCEPT ![r] = [IdleTask EXCEPT !.pc = "done", !.result = result]]

\* The task of request r ends with `result`: its scopeguard takes whatever
\* handler is in ongoing_operation (and panics unless it is its own operation).
\* The request's record keeps the result, and for the history of a fill what it was about.
TaskEnd(r, result) ==
    /\ ongoing_operation' = NoOperation
    /\ ops' = [ops EXCEPT ![r] =
                  IF track = "fill"
                  THEN [IdleTask EXCEPT !.pc = "done", !.result = result,
                                        !.kind = ops[r].kind,
                                        !.node = ops[r].node,
                                        !.planned = ops[r].planned,
                                        !.before = ops[r].before]
                  ELSE [IdleTask EXCEPT !.pc = "done", !.result = result]]

\* A cancellation branch that leaves the node's row as it was.
WrongCancelledRow(table, node_id) == table

\* What the node_configure of the cancellation branch writes to the nodes table.
CancelledRow(table, node_id) == update_node(table, node_id, "Active")

\* The cancellation branch of drain_node and fill_node: node_configure to
\* Active, then Cancelled, or FinalizeError when node_configure failed.
Cancelled(r, ok) ==
    /\ node_rows' = IF ok THEN CancelledRow(node_rows, ops[r].node) ELSE node_rows
    /\ nodes' = IF ok THEN NodeConfigure(nodes, ops[r].node, "Active") ELSE nodes
    /\ TaskEnd(r, IF ok THEN "Cancelled" ELSE "FinalizeError")
    /\ UNCHANGED intents

RECURSIVE Cursor(_, _)
\* tenants.iter_mut().skip_while(|(tid, _)| tid != last_inspected_shard)
Cursor(ids, last) ==
    IF last = 0 \/ ids = <<>> THEN ids
    ELSE IF Head(ids) = last THEN ids ELSE Cursor(Tail(ids), last)

RECURSIVE DrainShards(_, _, _, _, _, _, _, _)
\* The inner loop of drain_node under the write lock.
DrainShards(cursor, m, nd, node_id, waiters, last, preferred, reconciles) ==
    IF waiters >= MAX_RECONCILES_PER_OPERATION
    THEN [intents |-> m, waiters |-> waiters, last |-> last, all |-> FALSE]
    ELSE IF cursor = <<>>
    THEN [intents |-> m, waiters |-> waiters, last |-> last, all |-> TRUE]
    ELSE LET tid == Head(cursor)
             res == reschedule_to_secondary(m[tid], NoNode, nd, preferred)
         IN  IF m[tid].attached # node_id \/ ~res.ok
             THEN DrainShards(Tail(cursor), m, nd, node_id, waiters, tid,
                              preferred, reconciles)
             ELSE DrainShards(Tail(cursor), [m EXCEPT ![tid] = res.intent], nd, node_id,
                              IF reconciles THEN waiters + 1 ELSE waiters, tid,
                              preferred, reconciles)

\* One pass of the first loop of drain_node: the cancellation check, the
\* policy check and a batch of shards under the write lock, then
\* await_waiters_remainder, which leaves `remaining` reconciles in progress.
drain_node_batch(r, ok, preferred, reconciles, remaining) ==
    /\ ops[r].pc = "running"
    /\ ops[r].kind = "drain"
    /\ LET t == ops[r]
           b == DrainShards(Cursor(SortedIds(DOMAIN intents), t.last_inspected_shard),
                            intents, nodes, t.node, t.waiters, t.last_inspected_shard,
                            preferred, reconciles)
       IN  IF t.cancelled THEN Cancelled(r, ok)
           ELSE IF nodes[t.node].scheduling # "Draining"
           THEN /\ TaskEnd(r, "NodeStateChanged")
                /\ UNCHANGED <<nodes, node_rows, intents>>
           ELSE /\ remaining <= b.waiters
                /\ intents' = b.intents
                /\ ops' = [ops EXCEPT ![r].last_inspected_shard =
                                          IF b.all THEN 0 ELSE b.last,
                                      ![r].waiters = remaining,
                                      ![r].pc = IF b.all THEN "waiting" ELSE "running"]
                /\ UNCHANGED <<nodes, node_rows, ongoing_operation>>
    /\ UNCHANGED opsOthers

\* One pass of the loop that waits for the reconciles left, of drain_node or fill_node.
AwaitWaiters(r, ok, remaining) ==
    /\ ops[r].pc = "waiting"
    /\ ops[r].waiters > 0
    /\ IF ops[r].cancelled THEN Cancelled(r, ok)
       ELSE /\ remaining < ops[r].waiters
            /\ ops' = [ops EXCEPT ![r].waiters = remaining]
            /\ UNCHANGED <<nodes, node_rows, intents, ongoing_operation>>
    /\ UNCHANGED opsOthers

\* An end that reports Ok also when its node_configure failed.
WrongFinalize(r, ok, scheduling) ==
    /\ ops[r].pc = "waiting"
    /\ ops[r].waiters = 0
    /\ node_rows' = IF ok THEN update_node(node_rows, ops[r].node, scheduling) ELSE node_rows
    /\ nodes' = IF ok THEN NodeConfigure(nodes, ops[r].node, scheduling) ELSE nodes
    /\ TaskEnd(r, "Ok")
    /\ UNCHANGED <<intents, opsOthers>>

\* The end of drain_node or fill_node: node_configure to the final policy, then Ok.
Finalize(r, ok, scheduling) ==
    /\ ops[r].pc = "waiting"
    /\ ops[r].waiters = 0
    /\ node_rows' = IF ok THEN update_node(node_rows, ops[r].node, scheduling) ELSE node_rows
    /\ nodes' = IF ok THEN NodeConfigure(nodes, ops[r].node, scheduling) ELSE nodes
    /\ TaskEnd(r, IF ok THEN "Ok" ELSE "FinalizeError")
    /\ UNCHANGED <<intents, opsOthers>>

drain_node_wait(r, ok, remaining) == ops[r].kind = "drain" /\ AwaitWaiters(r, ok, remaining)

drain_node_finalize(r, ok) == ops[r].kind = "drain" /\ Finalize(r, ok, "PauseForRestart")

\* fill_node computes its plan.
fill_node_start(r) ==
    /\ ops[r].pc = "spawned"
    /\ LET plan == fill_node_plan(intents, nodes, ops[r].node)
       IN  ops' = [ops EXCEPT ![r].plan = plan,
                              ![r].planned = IF track = "fill" THEN plan ELSE <<>>,
                              ![r].before = IF track = "fill" THEN intents ELSE <<>>,
                              ![r].pc = IF plan = <<>> THEN "waiting" ELSE "running"]
    /\ UNCHANGED <<nodes, node_rows, intents, ongoing_operation, opsOthers>>

RECURSIVE FillShards(_, _, _, _, _, _)
\* The inner loop of fill_node under the write lock.
FillShards(plan, m, nd, node_id, waiters, reconciles) ==
    IF waiters >= MAX_RECONCILES_PER_OPERATION \/ plan = <<>>
    THEN [intents |-> m, waiters |-> waiters, plan |-> plan]
    ELSE LET tid == plan[Len(plan)]
             rest == SubSeq(plan, 1, Len(plan) - 1)
         IN  IF tid \notin DOMAIN m
             THEN FillShards(rest, m, nd, node_id, waiters, reconciles)
             ELSE IF node_id \notin m[tid].secondary
             THEN FillShards(rest, m, nd, node_id, waiters, reconciles)
             ELSE LET res == reschedule_to_secondary(m[tid], node_id, nd, node_id)
                  IN  IF ~res.ok
                      THEN FillShards(rest, m, nd, node_id, waiters, reconciles)
                      ELSE FillShards(rest, [m EXCEPT ![tid] = res.intent], nd, node_id,
                                      IF reconciles THEN waiters + 1 ELSE waiters,
                                      reconciles)

\* One pass of the first loop of fill_node.
fill_node_batch(r, ok, reconciles, remaining) ==
    /\ ops[r].pc = "running"
    /\ ops[r].kind = "fill"
    /\ LET t == ops[r]
           b == FillShards(t.plan, intents, nodes, t.node, t.waiters, reconciles)
       IN  IF t.cancelled THEN Cancelled(r, ok)
           ELSE IF nodes[t.node].scheduling # "Filling"
           THEN /\ TaskEnd(r, "NodeStateChanged")
                /\ UNCHANGED <<nodes, node_rows, intents>>
           ELSE /\ remaining <= b.waiters
                /\ intents' = b.intents
                /\ ops' = [ops EXCEPT ![r].plan = b.plan,
                                      ![r].waiters = remaining,
                                      ![r].pc = IF b.plan = <<>> THEN "waiting"
                                                ELSE "running"]
                /\ UNCHANGED <<nodes, node_rows, ongoing_operation>>
    /\ UNCHANGED opsOthers

fill_node_wait(r, ok, remaining) == ops[r].kind = "fill" /\ AwaitWaiters(r, ok, remaining)

fill_node_finalize(r, ok) == ops[r].kind = "fill" /\ Finalize(r, ok, "Active")

(***************************************************************************)
(* Requests that run beside a drain or fill                                *)
(***************************************************************************)
\* tenant_shard_migrate of a shard with policy Attached(1): the node becomes
\* the attached location, the location attached before the one secondary.
tenant_shard_migrate(tid, node_id) ==
    /\ tid \in DOMAIN intents
    /\ node_id \in DOMAIN nodes
    /\ intents[tid].attached # node_id
    /\ LET old_attached == intents[tid].attached
       IN  intents' = [intents EXCEPT ![tid] =
                          Intent(node_id,
                                 IF old_attached = NoNode
                                 THEN intents[tid].secondary \ {node_id}
                                 ELSE {old_attached})]
    /\ UNCHANGED <<nodes, node_rows, ongoing_operation, ops, opsOthers>>

\* tenant_delete: the shards of the tenant leave the map.
tenant_delete_inmem(tenant) ==
    /\ \E tid \in DOMAIN intents : TenantOf(tid) = tenant
    /\ intents' = [tid \in {t \in DOMAIN intents : TenantOf(t) # tenant} |-> intents[tid]]
    /\ UNCHANGED <<nodes, node_rows, ongoing_operation, ops, opsOthers>>

\* node_configure requested through the API with a scheduling policy.
node_configure(node_id, scheduling) ==
    /\ node_id \in DOMAIN nodes
    /\ node_rows' = update_node(node_rows, node_id, scheduling)
    /\ nodes' = NodeConfigure(nodes, node_id, scheduling)
    /\ UNCHANGED <<intents, ongoing_operation, ops, opsOthers>>

\* The policy re_attach leaves a node with.
ReAttachPolicy(scheduling) ==
    IF scheduling \in {"PauseForRestart", "Draining", "Filling"} THEN "Active"
    ELSE scheduling

\* re_attach, for the node: it becomes available, and a policy of
\* PauseForRestart, Draining or Filling is reset to Active.
re_attach_node(node_id) ==
    /\ node_id \in DOMAIN nodes
    /\ node_rows' = [node_rows EXCEPT ![node_id] = ReAttachPolicy(@)]
    /\ nodes' = [nodes EXCEPT ![node_id] = Node(ReAttachPolicy(@.scheduling), TRUE)]
    /\ UNCHANGED <<intents, ongoing_operation, ops, opsOthers>>

(***************************************************************************)
(* Drain and fill: specifications                                          *)
(***************************************************************************)
\* The intents of a shard with policy Attached(0) or Attached(1).
IntentOptions ==
    {Intent(a, s) : a \in Nodes, s \in {{}} \cup {{n} : n \in Nodes}} \ 
        {Intent(a, {a}) : a \in Nodes}

\* Nothing but drain and fill happens.
OthersIdle(history) ==
    /\ GenQuiet
    /\ track = history
    /\ SplitIdle
    /\ RcIdle
    /\ PlIdle
    /\ ReIdle
    /\ CrIdle
    /\ LaterIdle
    /\ vreq = <<>>
    /\ vresp = <<>>

\* A cluster with the sharded tenant placed, and no operation: drain and
\* fill, started by up to MaxOps requests.
InitOps ==
    /\ OthersIdle("none")
    /\ nodes = [n \in Nodes |-> Node("Active", TRUE)]
    /\ node_rows = [n \in Nodes |-> "Active"]
    /\ intents \in [ShardedIds -> IntentOptions]
    /\ ongoing_operation = NoOperation
    /\ ops = [r \in 1..MaxOps |-> IdleTask]

NextOps ==
    \/ \E r \in 1..MaxOps, n \in Nodes : start_node_drain(r, n)
    \/ \E r \in 1..MaxOps, n \in Nodes : start_node_fill(r, n)
    \/ \E r \in 1..MaxOps, ok \in BOOLEAN : start_operation(r, ok)
    \/ \E n \in Nodes : cancel_node_drain(n)
    \/ \E n \in Nodes : cancel_node_fill(n)
    \/ \E r \in 1..MaxOps, ok \in BOOLEAN, p \in Nodes, w \in BOOLEAN,
          k \in 0..MAX_RECONCILES_PER_OPERATION : drain_node_batch(r, ok, p, w, k)
    \/ \E r \in 1..MaxOps, ok \in BOOLEAN, k \in 0..MAX_RECONCILES_PER_OPERATION :
          drain_node_wait(r, ok, k)
    \/ \E r \in 1..MaxOps, ok \in BOOLEAN : drain_node_finalize(r, ok)
    \/ \E r \in 1..MaxOps : fill_node_start(r)
    \/ \E r \in 1..MaxOps, ok \in BOOLEAN, w \in BOOLEAN,
          k \in 0..MAX_RECONCILES_PER_OPERATION : fill_node_batch(r, ok, w, k)
    \/ \E r \in 1..MaxOps, ok \in BOOLEAN, k \in 0..MAX_RECONCILES_PER_OPERATION :
          fill_node_wait(r, ok, k)
    \/ \E r \in 1..MaxOps, ok \in BOOLEAN : fill_node_finalize(r, ok)
    \/ \E tid \in ShardIds, n \in Nodes : tenant_shard_migrate(tid, n)
    \/ \E t \in TenantIds : tenant_delete_inmem(t)
    \/ \E n \in Nodes, s \in {"Active", "Pause"} : node_configure(n, s)
    \/ \E n \in Nodes : re_attach_node(n)

SpecOps == InitOps /\ [][NextOps]_vars

\* A cluster with the unsharded tenants placed: one drain, beside the
\* requests that change the placement and the nodes.
InitDrain ==
    /\ OthersIdle("none")
    /\ nodes = [n \in Nodes |-> Node("Active", TRUE)]
    /\ node_rows = [n \in Nodes |-> "Active"]
    /\ intents \in [UnshardedIds -> IntentOptions]
    /\ ongoing_operation = NoOperation
    /\ ops = [r \in 1..MaxOps |-> IdleTask]

NextDrain ==
    \/ \E n \in Nodes : start_node_drain(1, n)
    \/ \E ok \in BOOLEAN : start_operation(1, ok)
    \/ \E n \in Nodes : cancel_node_drain(n)
    \/ \E ok \in BOOLEAN, p \in Nodes, w \in BOOLEAN,
          k \in 0..MAX_RECONCILES_PER_OPERATION : drain_node_batch(1, ok, p, w, k)
    \/ \E ok \in BOOLEAN, k \in 0..MAX_RECONCILES_PER_OPERATION : drain_node_wait(1, ok, k)
    \/ \E ok \in BOOLEAN : drain_node_finalize(1, ok)
    \/ \E tid \in ShardIds, n \in Nodes : tenant_shard_migrate(tid, n)
    \/ \E t \in TenantIds : tenant_delete_inmem(t)
    \/ \E n \in Nodes, s \in {"Active", "Pause"} : node_configure(n, s)
    \/ \E n \in Nodes : re_attach_node(n)

SpecDrain == InitDrain /\ [][NextDrain]_vars

\* fill_node alone, on every placement of the bounds: start_node_fill(target)
\* has set the policy Filling and spawned the task of request 1.
InitFill ==
    /\ OthersIdle("fill")
    /\ intents \in [ShardIds -> IntentOptions]
    /\ \E target \in Nodes, available \in [Nodes -> BOOLEAN] :
          /\ available[target]
          /\ nodes = [n \in Nodes |->
                         Node(IF n = target THEN "Filling" ELSE "Active", available[n])]
          /\ node_rows = [n \in Nodes |-> IF n = target THEN "Filling" ELSE "Active"]
          /\ ongoing_operation = OperationHandler("fill", target, 1)
          /\ ops = [r \in 1..MaxOps |->
                       IF r = 1 THEN [IdleTask EXCEPT !.pc = "spawned", !.kind = "fill",
                                                      !.node = target]
                       ELSE IdleTask]

NextFill ==
    \/ \E r \in 1..MaxOps : fill_node_start(r)
    \/ \E r \in 1..MaxOps, ok \in BOOLEAN, w \in BOOLEAN,
          k \in 0..MAX_RECONCILES_PER_OPERATION : fill_node_batch(r, ok, w, k)
    \/ \E r \in 1..MaxOps, ok \in BOOLEAN, k \in 0..MAX_RECONCILES_PER_OPERATION :
          fill_node_wait(r, ok, k)
    \/ \E r \in 1..MaxOps, ok \in BOOLEAN : fill_node_finalize(r, ok)

SpecFill == InitFill /\ [][NextFill]_vars

\* One drain or fill, started by request 1, beside cancel requests, node_configure
\* requests and re_attach.
NextCancel ==
    \/ \E n \in Nodes : start_node_drain(1, n)
    \/ \E n \in Nodes : start_node_fill(1, n)
    \/ \E ok \in BOOLEAN : start_operation(1, ok)
    \/ \E n \in Nodes : cancel_node_drain(n)
    \/ \E n \in Nodes : cancel_node_fill(n)
    \/ \E ok \in BOOLEAN, p \in Nodes, w \in BOOLEAN,
          k \in 0..MAX_RECONCILES_PER_OPERATION : drain_node_batch(1, ok, p, w, k)
    \/ \E ok \in BOOLEAN, k \in 0..MAX_RECONCILES_PER_OPERATION : drain_node_wait(1, ok, k)
    \/ \E ok \in BOOLEAN : drain_node_finalize(1, ok)
    \/ fill_node_start(1)
    \/ \E ok \in BOOLEAN, w \in BOOLEAN,
          k \in 0..MAX_RECONCILES_PER_OPERATION : fill_node_batch(1, ok, w, k)
    \/ \E ok \in BOOLEAN, k \in 0..MAX_RECONCILES_PER_OPERATION : fill_node_wait(1, ok, k)
    \/ \E ok \in BOOLEAN : fill_node_finalize(1, ok)
    \/ \E n \in Nodes, s \in {"Active", "Pause"} : node_configure(n, s)
    \/ \E n \in Nodes : re_attach_node(n)

SpecCancel == InitOps /\ [][NextCancel]_vars

(***************************************************************************)
(* Reconciles: maybe_reconcile_shard, reconcile_all, process_result and    *)
(* the sequence waiters                                                    *)
(***************************************************************************)
RcShards == 1..NumRcShards

\* The value of an intent or of an observed state: the node the shard is (to
\* be) attached to; an observed state of 0 is an uncertain one.
IntentValues == 1..NumNodes

ObservedValues == 0..NumNodes

\* A shard as the reconciles see it.  reconciler is the sequence of the
\* ReconcilerHandle, 0 without one; waiter and error_seq are the values the
\* two SeqWait of the shard have reached.
RcShard(intent, observed) ==
    [intent |-> intent, observed |-> observed, sequence |-> 1, waiter |-> 0,
     error_seq |-> 0, reconciler |-> 0, delayed_reconcile |-> FALSE]

\* A Reconciler task: it holds one unit of reconciler_concurrency until it exits.
Reconciler(id, sequence, target) ==
    [id |-> id, sequence |-> sequence, target |-> target, cancelled |-> FALSE]

ReconcileResult(id, sequence, ok, observed) ==
    [tenant_shard_id |-> id, sequence |-> sequence, ok |-> ok, observed |-> observed]

\* The part of ServiceState the reconciles work on, passed through the loops.
RcState(s, p, q, t) == [shards |-> s, permits |-> p, delayed |-> q, tasks |-> t]

\* TenantShard::get_reconcile_needed
get_reconcile_needed(shard) ==
    IF shard.observed = shard.intent THEN "No"
    ELSE IF shard.reconciler # 0 /\ shard.reconciler = shard.sequence THEN "WaitExisting"
    ELSE "Yes"

\* TenantShard::spawn_reconciler: a reconciler of the shard that is still
\* running is cancelled, the new one is bound to the current sequence.
spawn_reconciler_task(st, id) ==
    LET shard == st.shards[id]
        others == {[t EXCEPT !.cancelled = t.cancelled \/ t.id = id] : t \in st.tasks}
    IN  RcState([st.shards EXCEPT ![id].reconciler = shard.sequence],
                st.permits - 1, st.delayed,
                others \cup {Reconciler(id, shard.sequence, shard.intent)})

\* A maybe_reconcile_shard that does not try for a unit while the shard is
\* flagged as parked in the delayed queue.
WrongMaybeReconcileShard(st, id) ==
    LET shard == st.shards[id]
        reconcile_needed == get_reconcile_needed(shard)
    IN  IF reconcile_needed = "No" THEN [st |-> st, waiter |-> 0]
        ELSE IF reconcile_needed = "WaitExisting" THEN [st |-> st, waiter |-> shard.sequence]
        ELSE IF shard.delayed_reconcile THEN [st |-> st, waiter |-> shard.sequence]
        ELSE IF st.permits = 0
        THEN [st |-> IF Len(st.delayed) < MAX_DELAYED_RECONCILES
                     THEN RcState([st.shards EXCEPT ![id].delayed_reconcile = TRUE],
                                  st.permits, Append(st.delayed, id), st.tasks)
                     ELSE st,
              waiter |-> shard.sequence]
        ELSE [st |-> spawn_reconciler_task(st, id), waiter |-> shard.sequence]

\* Service::maybe_reconcile_shard: the state after it and the sequence of the
\* waiter it returns, 0 for None.
maybe_reconcile_shard(st, id) ==
    LET shard == st.shards[id]
        reconcile_needed == get_reconcile_needed(shard)
    IN  IF reconcile_needed = "No" THEN [st |-> st, waiter |-> 0]
        ELSE IF reconcile_needed = "WaitExisting" THEN [st |-> st, waiter |-> shard.sequence]
        ELSE IF st.permits = 0
        THEN [st |-> IF ~shard.delayed_reconcile /\ Len(st.delayed) < MAX_DELAYED_RECONCILES
                     THEN RcState([st.shards EXCEPT ![id].delayed_reconcile = TRUE],
                                  st.permits, Append(st.delayed, id), st.tasks)
                     ELSE st,
              waiter |-> shard.sequence]
        ELSE [st |-> spawn_reconciler_task(st, id), waiter |-> shard.sequence]

RECURSIVE ReconcileAllFrom(_, _, _)
\* The loop of reconcile_all over the tenant map: the state and the count it returns.
ReconcileAllFrom(ids, st, spawned) ==
    IF ids = <<>> THEN [st |-> st, reconciles_spawned |-> spawned]
    ELSE LET id == Head(ids)
             shard == st.shards[id]
             r == maybe_reconcile_shard(st, id)
         IN  IF shard.delayed_reconcile /\ st.permits = 0
             THEN ReconcileAllFrom(Tail(ids), st, Max(1, spawned))
             ELSE ReconcileAllFrom(Tail(ids), r.st,
                                   IF r.waiter # 0 THEN spawned + 1
                                   ELSE spawned)

RECURSIVE DrainDelayed(_)
\* The loop at the end of process_result over the delayed-reconcile queue.
DrainDelayed(st) ==
    IF st.delayed = <<>> THEN st
    ELSE LET id == Head(st.delayed)
             popped == RcState(IF id \in DOMAIN st.shards
                               THEN [st.shards EXCEPT ![id].delayed_reconcile = FALSE]
                               ELSE st.shards,
                               st.permits, Tail(st.delayed), st.tasks)
             after == IF id \in DOMAIN st.shards THEN maybe_reconcile_shard(popped, id).st
                      ELSE popped
         IN  IF after.permits = 0 THEN after ELSE DrainDelayed(after)

\* A successful result that advances the waiter although the reconcile failed.
WrongApplyResult(shard, result) ==
    [shard EXCEPT !.reconciler = IF @ # 0 /\ @ <= result.sequence THEN 0 ELSE @,
                  !.observed = result.observed,
                  !.waiter = Max(@, result.sequence)]

\* process_result on the shard of the result: reconcile_complete, then the
\* observed state and the waiter (success) or the last error (failure).
ApplyResult(shard, result) ==
    LET idle == [shard EXCEPT !.reconciler = IF @ # 0 /\ @ <= result.sequence THEN 0 ELSE @]
    IN  IF result.ok
        THEN [idle EXCEPT !.observed = result.observed,
                          !.waiter = Max(@, result.sequence)]
        ELSE [idle EXCEPT !.observed = result.observed,
                          !.error_seq = Max(@, result.sequence)]

RcNow == RcState(rshards, permits, delayed_reconcile_rx, tasks)

RcSet(st) ==
    /\ rshards' = st.shards
    /\ permits' = st.permits
    /\ delayed_reconcile_rx' = st.delayed
    /\ tasks' = st.tasks

\* tenant_shard_migrate as the reconciles see it: the intent changes and the
\* sequence advances (or neither, when the shard is attached there already),
\* maybe_reconcile_shard, and the waiter the request then waits on.
migrate_and_reconcile(id, node_id, w) ==
    /\ id \in DOMAIN rshards
    /\ waits[w] = NoWaiter
    /\ \A v \in 1..(w - 1) : waits[v] # NoWaiter
    /\ rshards[id].intent # node_id => rshards[id].sequence < MaxSequence
    /\ LET changed == IF rshards[id].intent = node_id THEN rshards
                      ELSE [rshards EXCEPT ![id].intent = node_id,
                                           ![id].sequence = @ + 1]
           r == maybe_reconcile_shard(RcState(changed, permits, delayed_reconcile_rx,
                                              tasks), id)
       IN  /\ RcSet(r.st)
           /\ waits' = [waits EXCEPT ![w] = IF r.waiter = 0
                                            THEN [NoWaiter EXCEPT !.status = "no-op"]
                                            ELSE ReconcilerWaiter(id, r.waiter)]
    /\ UNCHANGED <<exiting, result_rx, applied, seq_wait, reconciles_spawned, rcOthers>>

\* ReconcilerWaiter::wait_timeout returns: Ok when the shard's waiter has
\* reached the sequence, Failed when its error sequence has, and otherwise it
\* times out.  The waiter holds the shard's SeqWait, also after the shard has left the map.
wait_timeout(w) ==
    /\ waits[w].status = "InProgress"
    /\ LET reached == seq_wait[waits[w].id]
       IN  waits' = [waits EXCEPT ![w].status =
                        IF reached.waiter >= waits[w].seq THEN "Ok"
                        ELSE IF reached.error_seq >= waits[w].seq THEN "Failed"
                        ELSE "Timeout"]
    /\ UNCHANGED <<rshards, permits, delayed_reconcile_rx, tasks, exiting, result_rx, applied,
                   seq_wait, reconciles_spawned, rcOthers>>

\* Service::reconcile_all, called by the background reconcile loop.
reconcile_all ==
    /\ LET r == ReconcileAllFrom(SortedIds(DOMAIN rshards), RcNow, 0)
       IN  /\ RcSet(r.st)
           /\ reconciles_spawned' = r.reconciles_spawned
    /\ UNCHANGED <<exiting, result_rx, waits, applied, seq_wait, rcOthers>>

\* The Reconciler of a shard that is next to finish posts its ReconcileResult: a
\* cancelled one Err(Cancel); reconcilers of one shard finish in the order of
\* their sequences.  A failed reconcile leaves the observed state uncertain.
reconciler_result(id, ok) ==
    /\ \E t \in tasks : t.id = id
    /\ LET t == CHOOSE t \in tasks :
                    t.id = id /\ \A o \in tasks : o.id = id => o.sequence >= t.sequence
       IN  /\ t.cancelled => ~ok
           /\ tasks' = tasks \ {t}
           /\ result_rx' = Append(result_rx,
                                  ReconcileResult(t.id, t.sequence, ok,
                                                  IF ok THEN t.target ELSE 0))
    /\ exiting' = exiting + 1
    /\ UNCHANGED <<rshards, permits, delayed_reconcile_rx, waits, applied, seq_wait,
                   reconciles_spawned, rcOthers>>

\* A Reconciler task that posted its result ends and drops its ReconcileUnits.
reconciler_exit ==
    /\ exiting > 0
    /\ exiting' = exiting - 1
    /\ permits' = permits + 1
    /\ UNCHANGED <<rshards, delayed_reconcile_rx, tasks, result_rx, waits, applied, seq_wait,
                   reconciles_spawned, rcOthers>>

\* Service::process_result on the next result of the channel.
process_result_reconcile ==
    /\ result_rx # <<>>
    /\ LET result == Head(result_rx)
           id == result.tenant_shard_id
       IN  IF id \notin DOMAIN rshards
           THEN UNCHANGED <<rshards, permits, delayed_reconcile_rx, tasks, applied, seq_wait>>
           ELSE LET shard == ApplyResult(rshards[id], result)
                    st == RcState([rshards EXCEPT ![id] = shard], permits,
                                  delayed_reconcile_rx, tasks)
                IN  /\ RcSet(IF permits > 0 THEN DrainDelayed(st) ELSE st)
                    /\ seq_wait' = [seq_wait EXCEPT ![id] =
                                       [waiter |-> shard.waiter, error_seq |-> shard.error_seq]]
                    /\ applied' = IF result.ok
                                  THEN [applied EXCEPT ![id] = Max(@, result.sequence)]
                                  ELSE applied
    /\ result_rx' = Tail(result_rx)
    /\ UNCHANGED <<exiting, waits, reconciles_spawned, rcOthers>>

\* tenant_delete as the reconciles see it: the shard leaves the tenant map.
tenant_delete_reconcile(id) ==
    /\ id \in DOMAIN rshards
    /\ rshards' = [i \in DOMAIN rshards \ {id} |-> rshards[i]]
    /\ UNCHANGED <<permits, delayed_reconcile_rx, tasks, exiting, result_rx, waits, applied,
                   seq_wait, reconciles_spawned, rcOthers>>

\* The shards as loaded at startup, with any observed state, and no reconcile yet.
InitReconcile ==
    /\ GenIdle
    /\ SplitIdle
    /\ OpsIdle
    /\ PlIdle
    /\ ReIdle
    /\ CrIdle
    /\ LaterIdle
    /\ vreq = <<>>
    /\ vresp = <<>>
    /\ rshards \in [RcShards -> {RcShard(i, o) : i \in IntentValues, o \in ObservedValues}]
    /\ permits = reconciler_concurrency
    /\ delayed_reconcile_rx = <<>>
    /\ tasks = {}
    /\ exiting = 0
    /\ result_rx = <<>>
    /\ waits = [w \in 1..MaxWaits |-> NoWaiter]
    /\ seq_wait = [id \in RcShards |-> [waiter |-> 0, error_seq |-> 0]]
    /\ applied = [id \in RcShards |-> 0]
    /\ reconciles_spawned = -1

\* Requests that change intents and wait, reconciles that succeed or fail.
NextWaiter ==
    \/ \E id \in RcShards, n \in IntentValues, w \in 1..MaxWaits :
           migrate_and_reconcile(id, n, w)
    \/ \E w \in 1..MaxWaits : wait_timeout(w)
    \/ reconcile_all
    \/ \E id \in RcShards, ok \in BOOLEAN : reconciler_result(id, ok)
    \/ reconciler_exit
    \/ process_result_reconcile
    \/ \E id \in RcShards : tenant_delete_reconcile(id)

SpecWaiter == InitReconcile /\ [][NextWaiter]_vars

\* Intents held fixed and pageservers responsive: the background loop calls
\* reconcile_all, every reconcile succeeds, the results are processed.
NextReconcile ==
    \/ reconcile_all
    \/ \E id \in RcShards : reconciler_result(id, TRUE)
    \/ reconciler_exit
    \/ process_result_reconcile

\* The background reconcile loop, the Reconciler tasks and the loop that
\* processes results all keep running.
FairReconcile ==
    /\ WF_vars(reconcile_all)
    /\ WF_vars(\E id \in RcShards : reconciler_result(id, TRUE))
    /\ WF_vars(reconciler_exit)
    /\ WF_vars(process_result_reconcile)

SpecReconcile == InitReconcile /\ [][NextReconcile]_vars /\ FairReconcile

(***************************************************************************)
(* Claims                                                                  *)
(***************************************************************************)

\* C1: for every entry (shard id, claimed generation) of a validate request,
\* the response marks a shard of the map valid exactly when the claimed
\* generation equals the shard's generation (never when the shard has none),
\* and marks a shard that is not in the map valid; validate changes no state.
C1_Validate ==
    [][vresp' # vresp =>
        /\ UNCHANGED <<valOthers, vreq>>
        /\ Len(vresp') = Len(vreq)
        /\ \A i \in 1..Len(vreq) :
             LET id == vreq[i][1]
                 claimed == vreq[i][2]
             IN  /\ vresp'[i][1] = id
                 /\ vresp'[i][2] =
                        IF id \in DOMAIN tenants
                        THEN tenants[id].generation # NoGen
                             /\ tenants[id].generation = claimed
                        ELSE TRUE]_vars

\* C1's case: a response that marks a shard of the map valid and an absent
\* shard valid.
C1_Witness ==
    /\ Len(vresp) = 2
    /\ \E i, j \in 1..2 :
          /\ vresp[i][1] \in DOMAIN tenants /\ vresp[i][2]
          /\ vresp[j][1] \notin DOMAIN tenants /\ vresp[j][2]

\* C2: once re_attach has raised a shard's generation from G to some G' > G,
\* validate of (shard, G) is false for as long as the shard stays in the map.
C2_NoSplitBrain ==
    \A id \in DOMAIN tenants : \A G \in superseded[id] : ~ValidateEntry(tenants, id, G)

\* C3: no step lowers the in-memory generation of a shard.
C3_GenerationMonotonic ==
    [][\A id \in DOMAIN tenants \cap DOMAIN tenants' :
           tenants'[id].generation >= tenants[id].generation]_vars

\* The generations minted for a shard that a request in flight has yet to
\* return: by attach_hook, and by re_attach for each node.
PendingAttachHook(id) ==
    IF op[id].kind = "attach_hook" /\ op[id].node # NoNode THEN {op[id].gen} ELSE {}

PendingReAttach(id, n) ==
    IF id \in DOMAIN ra[n].inc THEN {ra[n].inc[id]} ELSE {}

OnlyCount(m, count) ==
    /\ DOMAIN m = AllShards(count)
    /\ \A id \in DOMAIN m : m[id].splitting = "Idle"

\* C6: when tenant_shard_split has finished, and the abort job with it when
\* the split failed, the tenant's shards in memory and in the database are
\* all the children at the new count with the parents gone, or all the
\* parents at the old count, Idle, with no children.
C6_SplitAtomic ==
    (sp.pc = "idle" /\ sp.new_shard_count # 0) =>
        \/ OnlyCount(mem, sp.new_shard_count) /\ OnlyCount(rows, sp.new_shard_count)
        \/ OnlyCount(mem, sp.old_shard_count) /\ OnlyCount(rows, sp.old_shard_count)

\* C6's case: a split failed and its abort job has finished.
C6_Witness ==
    /\ sp.pc = "idle"
    /\ sp.failed
    /\ sp.old_shard_count = 2
    /\ OnlyCount(mem, 2)

\* C7: when Service::spawn finds rows of more than one shard count for a
\* tenant, it aborts the split on the largest count: the rows of that count
\* are gone, and the map holds the shards of the smallest count only, each
\* Idle.
C7_StartupAbort ==
    startup_abort # 0 =>
        \E count_min \in ShardCounts :
            /\ count_min < startup_abort
            /\ OnlyCount(mem, count_min)
            /\ OnlyCount(rows, count_min)

\* C7's case: spawn has aborted a split to 4 shards.
C7_Witness == startup_abort = 4 /\ OnlyCount(mem, 2)

\* C8: the step in which drain_node(N) returns Ok leaves no shard of the
\* tenant map with intent.attached = N, and leaves N's scheduling policy
\* PauseForRestart.
C8_DrainOk ==
    [][\A r \in 1..MaxOps :
          (ops[r].kind = "drain" /\ ops[r].result # "Ok" /\ ops'[r].result = "Ok")
          => /\ \A tid \in DOMAIN intents' : intents'[tid].attached # ops[r].node
             /\ nodes'[ops[r].node].scheduling = "PauseForRestart"]_vars

\* The shards of a tenant attached to a node.
OnNode(m, tenant, node_id) ==
    Cardinality({tid \in DOMAIN m : TenantOf(tid) = tenant /\ m[tid].attached = node_id})

\* The plan of a fill task, against the placement it was computed from: no
\* shard twice, at most compute_fill_requirement shards, from each donor at
\* most its excess over expected_attached_shard_count, of each tenant at most
\* max(shard count / number of nodes, 1).
PlanBounded(t) ==
    LET p == t.planned
        b == t.before
        expected == expected_attached_shard_count(b, nodes)
    IN  /\ \A i, j \in 1..Len(p) : p[i] = p[j] => i = j
        /\ Len(p) <= compute_fill_requirement(b, nodes, t.node)
        /\ \A d \in Nodes :
              Cardinality({i \in 1..Len(p) : b[p[i]].attached = d})
                  <= Max(AttachedCount(b, d) - expected, 0)
        /\ \A i \in 1..Len(p) :
              Cardinality({j \in 1..Len(p) : TenantOf(p[j]) = TenantOf(p[i])})
                  <= Max(ShardCountOf(p[i]) \div NumNodes, 1)

\* No tenant gained more than its cap of attachments on the node of the fill.
TenantGainBounded(t) ==
    \A tid \in DOMAIN t.before :
        OnNode(intents, TenantOf(tid), t.node) - OnNode(t.before, TenantOf(tid), t.node)
            <= Max(ShardCountOf(tid) \div NumNodes, 1)

Planned(t) == t.kind = "fill" /\ t.pc \in {"running", "waiting", "done"}

\* C9 as stated: the plan of fill_node_plan(N) is bounded by the fill
\* requirement, by each donor's excess and by the cap of each tenant, and
\* after fill_node(N) the attached count of N does not exceed
\* expected_attached_shard_count and no tenant gained more than its cap.
C9_FillBalance ==
    \A r \in 1..MaxOps :
        Planned(ops[r]) =>
            /\ PlanBounded(ops[r])
            /\ ops[r].result = "Ok" =>
                  /\ AttachedCount(intents, ops[r].node)
                         <= expected_attached_shard_count(intents, nodes)
                  /\ TenantGainBounded(ops[r])

\* C9, amended: the plan is bounded as stated, and after fill_node(N) the
\* attached count of N does not exceed the larger of
\* expected_attached_shard_count and the count N had when the plan was made
\* (a node that starts above the expected count gets an empty plan and keeps
\* its attachments), and no tenant gained more than its cap on N.
C9_FillPlan ==
    \A r \in 1..MaxOps :
        Planned(ops[r]) =>
            /\ PlanBounded(ops[r])
            /\ ops[r].result = "Ok" =>
                  /\ AttachedCount(intents, ops[r].node)
                         <= Max(expected_attached_shard_count(ops[r].before, nodes),
                                AttachedCount(ops[r].before, ops[r].node))
                  /\ TenantGainBounded(ops[r])

\* A fill that returned Ok after promoting the two shards of its plan, the
\* cap having kept a second shard of a tenant out of the plan.
C9_Witness ==
    \E r \in 1..MaxOps :
        /\ ops[r].kind = "fill"
        /\ ops[r].result = "Ok"
        /\ Len(ops[r].planned) = 2
        /\ AttachedCount(intents, ops[r].node)
               = AttachedCount(ops[r].before, ops[r].node) + 2
        /\ \E tid \in DOMAIN intents, i \in 1..Len(ops[r].planned) :
              /\ TenantOf(tid) = TenantOf(ops[r].planned[i])
              /\ tid # ops[r].planned[i]
              /\ ops[r].node \in ops[r].before[tid].secondary
              /\ ops[r].before[tid].attached = ops[r].before[ops[r].planned[i]].attached

\* The requests whose background task exists.
RunningTasks == {r \in 1..MaxOps : ops[r].pc \in {"spawned", "running", "waiting"}}

\* C10: at most one drain or fill background task exists, and
\* ongoing_operation holds a handler exactly when a task exists, the handler
\* of that task.
C10_SingleOperation ==
    /\ Cardinality(RunningTasks) <= 1
    /\ \A r \in RunningTasks :
          ongoing_operation = OperationHandler(ops[r].kind, ops[r].node, r)
    /\ ongoing_operation # NoOperation => ongoing_operation.cancel \in RunningTasks

\* C11 (as stated): a drain or fill whose cancellation was requested
\* (cancel_node_drain or cancel_node_fill returned Ok) never ends with its node
\* left in Draining, Filling or PauseForRestart.
C11_CancelledNeverLeft ==
    [][\A r \in 1..MaxOps :
          (ops[r].cancelled /\ ops[r].pc \in {"running", "waiting"} /\ ops'[r].pc = "done")
              => nodes'[ops[r].node].scheduling \notin
                     {"Draining", "Filling", "PauseForRestart"}]_vars

\* C11 (amended): when a drain or fill returns Cancelled, its cancellation was
\* requested and the scheduling policy of its node is Active, in the nodes
\* table and in memory.
C11_CancelledActive ==
    [][\A r \in 1..MaxOps :
          (ops[r].result # "Cancelled" /\ ops'[r].result = "Cancelled")
              => /\ ops[r].cancelled
                 /\ nodes'[ops[r].node].scheduling = "Active"
                 /\ node_rows'[ops[r].node] = "Active"]_vars

\* C11 witness: a cancelled operation has returned Cancelled and its node is Active.
C11_Witness ==
    /\ ops[1].result = "Cancelled"
    /\ ongoing_operation = NoOperation
    /\ \E n \in DOMAIN nodes : nodes[n].scheduling = "Active" /\ node_rows[n] = "Active"

\* C12: a wait for sequence s of a shard ends in success if and only if
\* process_result has applied a successful ReconcileResult of that shard with a
\* sequence of at least s; results that failed or were cancelled, and results
\* of other shards, do not count.
C12_WaiterSuccess ==
    [][\A w \in 1..MaxWaits :
          (waits[w].status = "InProgress" /\ waits'[w].status # "InProgress")
              => (waits'[w].status = "Ok" <=> applied[waits[w].id] >= waits[w].seq)]_vars

\* C12 witness: a wait ended in success on a shard for which a failed result
\* of that sequence or a later one was applied too.
C12_Witness ==
    /\ waits[1].status = "Ok"
    /\ applied[waits[1].id] >= waits[1].seq
    /\ seq_wait[waits[1].id].error_seq >= waits[1].seq

\* C13: with the intents fixed and every reconcile succeeding, from any observed
\* state the calls of reconcile_all eventually return 0, and from then on always.
C13_Converges == <>[](reconciles_spawned = 0)

\* C13 witness: reconcile_all returns 0 after both shards needed a reconcile
\* with one permit, and one of them had been parked in the delayed queue.
C13_Witness ==
    /\ reconciles_spawned = 0
    /\ \A id \in RcShards : applied[id] = 1 /\ rshards[id].observed = rshards[id].intent
    /\ \E id \in RcShards : rshards[id].delayed_reconcile
    /\ delayed_reconcile_rx # <<>>

(***************************************************************************)
(* Placement: the intents of the shards, the node map and the scheduler's  *)
(* reference counts                                                        *)
(***************************************************************************)
\* Node ids that requests can name.
PlNodeIds == Nodes

\* The shard counts of the placement model: unsharded, and split in two.
PlCounts == {1, 2}

PlacementPolicies == {"Attached0", "Attached1", "Secondary", "Detached"}

\* The number of secondaries PlacementPolicy::Attached(n) asks for.
SecondaryCount(policy) == IF policy = "Attached1" THEN 1 ELSE 0

\* TenantShard as the placement sees it: PlacementPolicy and IntentState.
PlShard(policy, intent) == [policy |-> policy, intent |-> intent]

NoIntent == Intent(NoNode, {})

\* The scheduler's counters of a node that was just added.
NoRefs == [attached |-> 0, secondary |-> 0]

\* An intent together with the scheduler it is counted in: what the methods
\* of IntentState take and change.
Counted(intent, sched) == [intent |-> intent, scheduler |-> sched]

\* Scheduler: a reference to a node is added (d = 1) or returned (d = -1); the
\* scheduler has no counter for a node that was not upserted.
UpdateRef(sched, node_id, kind, d) ==
    IF node_id \notin DOMAIN sched THEN sched
    ELSE IF kind = "attached" THEN [sched EXCEPT ![node_id].attached = @ + d]
    ELSE [sched EXCEPT ![node_id].secondary = @ + d]

\* IntentState::set_attached
set_attached(c, new_attached) ==
    IF c.intent.attached = new_attached THEN c
    ELSE LET detached == IF c.intent.attached = NoNode THEN c.scheduler
                         ELSE UpdateRef(c.scheduler, c.intent.attached, "attached", -1)
             attached == IF new_attached = NoNode THEN detached
                         ELSE UpdateRef(detached, new_attached, "attached", 1)
         IN  Counted([c.intent EXCEPT !.attached = new_attached], attached)

\* IntentState::push_secondary
push_secondary(c, node_id) ==
    IF node_id \in c.intent.secondary THEN c
    ELSE Counted([c.intent EXCEPT !.secondary = @ \cup {node_id}],
                 UpdateRef(c.scheduler, node_id, "secondary", 1))

\* IntentState::remove_secondary
remove_secondary(c, node_id) ==
    IF node_id \notin c.intent.secondary THEN c
    ELSE Counted([c.intent EXCEPT !.secondary = @ \ {node_id}],
                 UpdateRef(c.scheduler, node_id, "secondary", -1))

RECURSIVE clear_secondary(_)
\* IntentState::clear_secondary
clear_secondary(c) ==
    IF c.intent.secondary = {} THEN c
    ELSE clear_secondary(remove_secondary(c, SetMin(c.intent.secondary)))

\* IntentState::pop_secondary
pop_secondary(c) ==
    IF c.intent.secondary = {} THEN c ELSE remove_secondary(c, SetMax(c.intent.secondary))

\* IntentState::clear
clear(c) == clear_secondary(set_attached(c, NoNode))

\* IntentState::demote_attached: the attached location becomes a secondary.
demote_attached(c, node_id) ==
    IF c.intent.attached # node_id THEN c
    ELSE push_secondary(set_attached(c, NoNode), node_id)

\* TenantShard::deref_node: the node leaves the intent; the scheduler is not told.
deref_node(intent, node_id) ==
    Intent(IF intent.attached = node_id THEN NoNode ELSE intent.attached,
           intent.secondary \ {node_id})

\* Scheduler::schedule_shard: a schedulable node outside `avoid`, the node
\* `preferred` when it is one; NoNode when there is none.
schedule_shard(nd, avoid, preferred) ==
    LET cands == {n \in DOMAIN nd : MaySchedule(nd[n])} \ avoid
    IN  IF cands = {} THEN NoNode
        ELSE IF preferred \in cands THEN preferred ELSE SetMin(cands)

\* TenantShard::schedule: the intent follows the policy.  Detached: no
\* location; Secondary: no attached location and one secondary; Attached(n):
\* one attached location, a schedulable secondary promoted when there is one,
\* and n secondaries.  ok is FALSE when a node was needed and none was found.
schedule(c, policy, nd, preferred) ==
    IF policy = "Detached" THEN [ok |-> TRUE, c |-> clear(c)]
    ELSE IF policy = "Secondary"
    THEN LET d == set_attached(c, NoNode)
             to == schedule_shard(nd, {}, preferred)
         IN  IF d.intent.secondary # {} THEN [ok |-> TRUE, c |-> d]
             ELSE IF to = NoNode THEN [ok |-> FALSE, c |-> d]
             ELSE [ok |-> TRUE, c |-> push_secondary(d, to)]
    ELSE LET secs == {n \in c.intent.secondary : n \in DOMAIN nd /\ MaySchedule(nd[n])}
             promote == IF preferred \in secs THEN preferred ELSE SetMin(secs)
             to == schedule_shard(nd, c.intent.secondary, preferred)
             a == IF c.intent.attached # NoNode THEN c
                  ELSE IF secs # {} THEN set_attached(remove_secondary(c, promote), promote)
                  ELSE IF to = NoNode THEN c
                  ELSE set_attached(c, to)
             sec == schedule_shard(nd, {a.intent.attached} \cup a.intent.secondary, preferred)
         IN  IF a.intent.attached = NoNode THEN [ok |-> FALSE, c |-> a]
             ELSE IF Cardinality(a.intent.secondary) >= SecondaryCount(policy)
             THEN [ok |-> TRUE, c |-> a]
             ELSE IF sec = NoNode THEN [ok |-> FALSE, c |-> a]
             ELSE [ok |-> TRUE, c |-> push_secondary(a, sec)]

\* The counters a scan of the tenant map gives for a node.
ScanRefs(m, node_id) ==
    [attached |-> Cardinality({id \in DOMAIN m : m[id].intent.attached = node_id}),
     secondary |-> Cardinality({id \in DOMAIN m : node_id \in m[id].intent.secondary})]

\* Scheduler::consistency_check: the counters of every node equal those of a
\* scan, and no shard refers to a node the scheduler has no counters for.
SchedulerConsistent(m, sched) ==
    \A n \in PlNodeIds :
        IF n \in DOMAIN sched THEN sched[n] = ScanRefs(m, n)
        ELSE ScanRefs(m, n) = NoRefs

\* The tenant map and the scheduler, as the write guard gives them to a handler.
PlState(m, sched) == [tenants |-> m, scheduler |-> sched]

\* A shard's intent, counted in the scheduler of the state.
CountedShard(st, id) == Counted(st.tenants[id].intent, st.scheduler)

\* The state after a shard's intent was changed to c.
WithIntent(st, id, c) ==
    PlState([st.tenants EXCEPT ![id].intent = c.intent], c.scheduler)

\* Scheduler::node_upsert: a node that is new to the scheduler starts with no shard.
node_upsert(sched, node_id) ==
    IF node_id \in DOMAIN sched THEN sched
    ELSE [n \in DOMAIN sched \cup {node_id} |-> IF n = node_id THEN NoRefs ELSE sched[n]]

\* Scheduler::node_remove
node_remove(sched, node_id) == [n \in DOMAIN sched \ {node_id} |-> sched[n]]

\* The first of the shard ids in the order of the tenant map.
FirstShard(ids) ==
    CHOOSE id \in ids : \A o \in ids : id[1] < o[1] \/ (id[1] = o[1] /\ id[2] <= o[2])

RECURSIVE ScheduleShards(_, _, _, _)
\* schedule() for each of the shards ids, in the order of the map.
ScheduleShards(ids, st, nd, preferred) ==
    IF ids = {} THEN st
    ELSE LET id == FirstShard(ids)
             r == schedule(CountedShard(st, id), st.tenants[id].policy, nd, preferred)
         IN  ScheduleShards(ids \ {id}, WithIntent(st, id, r.c), nd, preferred)

RECURSIVE ClearShards(_, _)
\* intent.clear(scheduler) for each of the shards ids.
ClearShards(ids, st) ==
    IF ids = {} THEN st
    ELSE LET id == FirstShard(ids)
         IN  ClearShards(ids \ {id}, WithIntent(st, id, clear(CountedShard(st, id))))

RECURSIVE DemoteShards(_, _, _, _, _)
\* node_configure, ToOffline: each shard attached to the node demotes it and
\* schedules again.
DemoteShards(ids, st, nd, node_id, preferred) ==
    IF ids = {} THEN st
    ELSE LET id == FirstShard(ids)
             c == CountedShard(st, id)
             r == schedule(demote_attached(c, node_id), st.tenants[id].policy, nd, preferred)
             next == IF c.intent.attached = node_id THEN WithIntent(st, id, r.c) ELSE st
         IN  DemoteShards(ids \ {id}, next, nd, node_id, preferred)

\* node_register: the node enters the node map and the scheduler.
node_register(node_id) ==
    /\ node_id \notin DOMAIN pnodes
    /\ pnodes' = [n \in DOMAIN pnodes \cup {node_id} |->
                    IF n = node_id THEN Node("Active", TRUE) ELSE pnodes[n]]
    /\ scheduler' = node_upsert(scheduler, node_id)
    /\ UNCHANGED <<ptenants, plOthers>>

\* node_drop: every shard forgets the node, and the node leaves the node map
\* and the scheduler.
node_drop(node_id) ==
    /\ node_id \in DOMAIN pnodes
    /\ ptenants' = [id \in DOMAIN ptenants |->
                      [ptenants[id] EXCEPT !.intent = deref_node(@, node_id)]]
    /\ pnodes' = [n \in DOMAIN pnodes \ {node_id} |-> pnodes[n]]
    /\ scheduler' = node_remove(scheduler, node_id)
    /\ UNCHANGED plOthers

\* node_configure with availability Offline.
node_offline(node_id, preferred) ==
    /\ node_id \in DOMAIN pnodes
    /\ pnodes[node_id].available
    /\ LET new_nodes == [pnodes EXCEPT ![node_id].available = FALSE]
           skip == \/ Cardinality(DOMAIN new_nodes) = 1
                   \/ ~\E n \in DOMAIN new_nodes : MaySchedule(new_nodes[n])
           st == PlState(ptenants, node_upsert(scheduler, node_id))
           after == IF skip THEN st
                    ELSE DemoteShards(DOMAIN ptenants, st, new_nodes, node_id, preferred)
       IN  /\ pnodes' = new_nodes
           /\ ptenants' = after.tenants
           /\ scheduler' = after.scheduler
    /\ UNCHANGED plOthers

\* node_configure with availability Active.
node_online(node_id) ==
    /\ node_id \in DOMAIN pnodes
    /\ ~pnodes[node_id].available
    /\ pnodes' = [pnodes EXCEPT ![node_id].available = TRUE]
    /\ scheduler' = node_upsert(scheduler, node_id)
    /\ UNCHANGED <<ptenants, plOthers>>

\* do_tenant_create, in memory: the shards are inserted and scheduled.
tenant_create_schedule(shard_count, placement_policy, preferred) ==
    /\ ptenants = <<>>
    /\ LET created_shards == [id \in AllShards(shard_count) |-> PlShard(placement_policy, NoIntent)]
           after == ScheduleShards(AllShards(shard_count), PlState(created_shards, scheduler),
                                   pnodes, preferred)
       IN  /\ ptenants' = after.tenants
           /\ scheduler' = after.scheduler
    /\ UNCHANGED <<pnodes, plOthers>>

\* attach_hook, in memory: the shard is inserted when it is missing, its policy
\* is Attached(0), or Detached without a node, and the node is its attached
\* location.
attach_hook_intent(id, node_id) ==
    /\ \/ id \in DOMAIN ptenants
       \/ ptenants = <<>> /\ id = <<1, 0>>
    /\ LET policy == IF node_id = NoNode THEN "Detached" ELSE "Attached0"
           old == IF id \in DOMAIN ptenants THEN ptenants[id].intent ELSE NoIntent
           c == set_attached(Counted(old, scheduler), node_id)
       IN  /\ ptenants' = [i \in DOMAIN ptenants \cup {id} |->
                             IF i = id THEN PlShard(policy, c.intent) ELSE ptenants[i]]
           /\ scheduler' = c.scheduler
    /\ UNCHANGED <<pnodes, plOthers>>

\* tenant_shard_migrate, the change of the intent.
MigrateIntent(c, policy, node_id) ==
    IF c.intent.attached = node_id THEN c
    ELSE IF policy = "Secondary" THEN push_secondary(clear(c), node_id)
    ELSE LET r == remove_secondary(c, node_id)
             room == IF Cardinality(r.intent.secondary) >= SecondaryCount(policy)
                     THEN pop_secondary(r) ELSE r
             d == IF c.intent.attached # NoNode /\ SecondaryCount(policy) > 0
                  THEN push_secondary(room, c.intent.attached) ELSE r
         IN  set_attached(d, node_id)

tenant_shard_migrate_intent(id, node_id) ==
    /\ node_id \in DOMAIN pnodes
    /\ id \in DOMAIN ptenants
    /\ ptenants[id].policy # "Detached"
    /\ LET c == MigrateIntent(Counted(ptenants[id].intent, scheduler), ptenants[id].policy, node_id)
       IN  /\ ptenants' = [ptenants EXCEPT ![id].intent = c.intent]
           /\ scheduler' = c.scheduler
    /\ UNCHANGED <<pnodes, plOthers>>

\* tenant_delete, in memory: every shard's intent is cleared, then the shards
\* leave the map.
tenant_delete_clear ==
    /\ ptenants # <<>>
    /\ scheduler' = ClearShards(DOMAIN ptenants, PlState(ptenants, scheduler)).scheduler
    /\ ptenants' = <<>>
    /\ UNCHANGED <<pnodes, plOthers>>

\* tenant_drop: each shard leaves the map, and its intent is cleared.
tenant_drop ==
    /\ ptenants # <<>>
    /\ scheduler' = ClearShards(DOMAIN ptenants, PlState(ptenants, scheduler)).scheduler
    /\ ptenants' = <<>>
    /\ UNCHANGED <<pnodes, plOthers>>

RECURSIVE SingleShards(_, _, _)
\* IntentState::single(scheduler, Some(pageserver)) for each of the shards ids.
SingleShards(ids, st, pageserver) ==
    IF ids = {} THEN st
    ELSE LET id == FirstShard(ids)
         IN  SingleShards(ids \ {id},
                          WithIntent(st, id, set_attached(Counted(NoIntent, st.scheduler), pageserver)),
                          pageserver)

RECURSIVE CommitShards(_, _, _, _, _)
\* tenant_shard_split_commit_inmem: each parent leaves the map with its intent
\* cleared, and its children enter it attached where the parent was, and
\* scheduled.
CommitShards(parent_ids, st, new_shard_count, nd, preferred) ==
    IF parent_ids = {} THEN st
    ELSE LET parent_id == FirstShard(parent_ids)
             old_state == st.tenants[parent_id]
             cleared == clear(CountedShard(st, parent_id))
             child_ids == ChildIds(parent_id, new_shard_count)
             children == [id \in (DOMAIN st.tenants \ {parent_id}) \cup child_ids |->
                            IF id \in child_ids THEN PlShard(old_state.policy, NoIntent)
                            ELSE st.tenants[id]]
             single == SingleShards(child_ids, PlState(children, cleared.scheduler),
                                    old_state.intent.attached)
         IN  CommitShards(parent_ids \ {parent_id},
                          ScheduleShards(child_ids, single, nd, preferred),
                          new_shard_count, nd, preferred)

\* tenant_shard_split, when it succeeds: the in-memory commit.
split_commit_intent(new_shard_count, preferred) ==
    /\ ptenants # <<>>
    /\ \A id \in DOMAIN ptenants : id[1] < new_shard_count /\ ptenants[id].intent.attached # NoNode
    /\ LET after == CommitShards(DOMAIN ptenants, PlState(ptenants, scheduler),
                                 new_shard_count, pnodes, preferred)
       IN  /\ ptenants' = after.tenants
           /\ scheduler' = after.scheduler
    /\ UNCHANGED <<pnodes, plOthers>>

\* abort_tenant_shard_split, in memory, after a split to new_shard_count failed
\* before its shards entered the map: the parents are scheduled again, and
\* shards of the new count are dropped from the map.
split_abort_intent(new_shard_count, preferred) ==
    /\ ptenants # <<>>
    /\ \A id \in DOMAIN ptenants : id[1] < new_shard_count
    /\ LET parents == {id \in DOMAIN ptenants : id[1] # new_shard_count}
           after == ScheduleShards(parents, PlState(ptenants, scheduler), pnodes, preferred)
       IN  /\ ptenants' = [id \in parents |-> after.tenants[id]]
           /\ scheduler' = after.scheduler
    /\ UNCHANGED <<pnodes, plOthers>>

\* TenantShard::reschedule_to_secondary with the scheduler's counters: the
\* attached location becomes a secondary and a schedulable secondary, or
\* without one any other schedulable node, becomes the attached location.
RescheduleCounted(c, nd, preferred) ==
    LET secs == {n \in c.intent.secondary : n \in DOMAIN nd /\ MaySchedule(nd[n])}
        any == {n \in DOMAIN nd : MaySchedule(nd[n]) /\ n # c.intent.attached}
        cands == IF secs # {} THEN secs ELSE any
        to == IF preferred \in cands THEN preferred ELSE SetMin(cands)
        demoted == demote_attached(c, c.intent.attached)
    IN  IF cands = {} THEN c
        ELSE set_attached(remove_secondary(demoted, to), to)

\* drain_node and fill_node, one move: a shard attached to a node of the
\* cluster is rescheduled to a secondary.
reschedule_intent(id, preferred) ==
    /\ id \in DOMAIN ptenants
    /\ ptenants[id].intent.attached \in DOMAIN pnodes
    /\ LET c == RescheduleCounted(Counted(ptenants[id].intent, scheduler), pnodes, preferred)
       IN  /\ ptenants' = [ptenants EXCEPT ![id].intent = c.intent]
           /\ scheduler' = c.scheduler
    /\ UNCHANGED <<pnodes, plOthers>>

\* A controller that no node has registered with yet, and no tenant.
InitPlacement ==
    /\ GenIdle
    /\ SplitIdle
    /\ OpsIdle
    /\ RcIdle
    /\ ReIdle
    /\ CrIdle
    /\ LaterIdle
    /\ vreq = <<>>
    /\ vresp = <<>>
    /\ pnodes = <<>>
    /\ ptenants = <<>>
    /\ scheduler = <<>>

PlShardIds == UNION {AllShards(count) : count \in PlCounts}

NextPlacement ==
    \/ \E n \in PlNodeIds : node_register(n)
    \/ \E n \in PlNodeIds : node_drop(n)
    \/ \E n \in PlNodeIds, preferred \in PlNodeIds : node_offline(n, preferred)
    \/ \E n \in PlNodeIds : node_online(n)
    \/ \E policy \in PlacementPolicies, preferred \in PlNodeIds :
          tenant_create_schedule(1, policy, preferred)
    \/ \E id \in PlShardIds, n \in PlNodeIds \cup {NoNode} : attach_hook_intent(id, n)
    \/ \E id \in PlShardIds, n \in PlNodeIds : tenant_shard_migrate_intent(id, n)
    \/ tenant_delete_clear
    \/ tenant_drop
    \/ \E preferred \in PlNodeIds : split_commit_intent(2, preferred)
    \/ \E preferred \in PlNodeIds : split_abort_intent(2, preferred)
    \/ \E id \in PlShardIds, preferred \in PlNodeIds : reschedule_intent(id, preferred)

SpecPlacement == InitPlacement /\ [][NextPlacement]_vars

\* C14: whenever no operation is in flight, the scheduler's attached and
\* secondary counters of every node equal those of a scan of the intents of
\* the shards in the tenant map.
C14_SchedulerConsistent == SchedulerConsistent(ptenants, scheduler)

\* C15: the attached location of a shard is not one of its secondaries, and
\* every node an intent refers to is in the node map.
C15_IntentWellFormed ==
    \A id \in DOMAIN ptenants :
        /\ ptenants[id].intent.attached \notin ptenants[id].intent.secondary
        /\ \A n \in ({ptenants[id].intent.attached} \ {NoNode}) \cup ptenants[id].intent.secondary :
              n \in DOMAIN pnodes

\* No request and no reconciler of the generation protocol is in flight.
NothingInFlight ==
    /\ op = [id \in Shards |-> IdleOp]
    /\ ra = [n \in Nodes |-> IdleRa]
    /\ \A id \in Shards : ~rec[id].active

\* C16: whenever no operation or reconciler is in flight, also after operations
\* that returned an error, the shards in memory are the rows of the database
\* and each has the generation of its row.
C16_MemoryEqualsRows ==
    NothingInFlight =>
        /\ DOMAIN tenants = DOMAIN db
        /\ \A id \in DOMAIN tenants : tenants[id].generation = db[id].generation

(***************************************************************************)
(* re_attach: the response, and the node                                   *)
(***************************************************************************)
NumReShards == 2     \* shards of the re_attach model

ReShards == 1..NumReShards

\* TenantShard as re_attach sees it: generation, policy and intent.
ReShard(generation, policy, intent) ==
    [generation |-> generation, policy |-> policy, intent |-> intent]

\* ReAttachResponseTenant
ReAttachResponseTenant(id, gen, mode) == [id |-> id, gen |-> gen, mode |-> mode]

\* The entries of the response for one shard, with a mistake: an incremented
\* shard that has the node as a secondary is answered twice.
WrongResponseTenants(id, shard, incremented_generations, node_id) ==
    (IF id \in DOMAIN incremented_generations
     THEN <<ReAttachResponseTenant(id, ReAttachResponseGen(shard, incremented_generations[id]),
                                   "AttachedSingle")>>
     ELSE <<>>)
    \o (IF node_id \in shard.intent.secondary
        THEN <<ReAttachResponseTenant(id, NoGen, "Secondary")>>
        ELSE <<>>)

\* The entries of the response for one shard of the map: AttachedSingle with
\* the new generation when the database call incremented it, else Secondary
\* without a generation when the node is one of its secondaries, else none.
ResponseTenants(id, shard, incremented_generations, node_id) ==
    IF id \in DOMAIN incremented_generations
    THEN <<ReAttachResponseTenant(id, ReAttachResponseGen(shard, incremented_generations[id]),
                                  "AttachedSingle")>>
    ELSE IF node_id \in shard.intent.secondary
    THEN <<ReAttachResponseTenant(id, NoGen, "Secondary")>>
    ELSE <<>>

RECURSIVE ReAttachResponse(_, _, _, _)
\* The scan of re_attach through the shards ids of the map, in order.
ReAttachResponse(ids, tmap, incremented_generations, node_id) ==
    IF ids = <<>> THEN <<>>
    ELSE ResponseTenants(Head(ids), tmap[Head(ids)], incremented_generations, node_id)
         \o ReAttachResponse(Tail(ids), tmap, incremented_generations, node_id)

\* re_attach, its database call: Persistence::re_attach increments the
\* generation of every row stamped with the node, and resets the node's
\* persisted policy.
re_attach_db(node_id) ==
    /\ re_req.pc = "idle"
    /\ node_id \in DOMAIN re_nodes
    /\ \A id \in ReAttachRows(re_rows, node_id) : CanIncrement(re_rows, id)
    /\ re_rows' = persistence_re_attach(re_rows, node_id)
    /\ re_node_rows' = [re_node_rows EXCEPT ![node_id] = ReAttachPolicy(@)]
    /\ re_req' = [pc |-> "persisted", node_id |-> node_id,
                  inc |-> [id \in ReAttachRows(re_rows, node_id) |-> re_rows[id].generation + 1],
                  before |-> [id \in ReAttachRows(re_rows, node_id) |-> re_rows[id].generation],
                  scheduling |-> re_nodes[node_id].scheduling]
    /\ UNCHANGED <<re_nodes, re_tenants, re_cfg, re_response, reOthers>>

\* re_attach, under the state lock: the scan of the shards, and the node
\* becomes available with a policy of PauseForRestart, Draining or Filling
\* reset to Active.
re_attach_inmem ==
    /\ re_req.pc = "persisted"
    /\ LET node_id == re_req.node_id
           incremented_generations == re_req.inc
       IN  /\ re_response' = ReAttachResponse(SortedIds(DOMAIN re_tenants), re_tenants,
                                              incremented_generations, node_id)
           /\ re_tenants' = [id \in DOMAIN re_tenants |->
                  IF id \in DOMAIN incremented_generations
                  THEN [re_tenants[id] EXCEPT !.generation =
                           ReAttachGeneration(re_tenants[id], incremented_generations[id])]
                  ELSE re_tenants[id]]
           /\ re_nodes' = IF node_id \in DOMAIN re_nodes
                          THEN [re_nodes EXCEPT ![node_id] =
                                   Node(ReAttachPolicy(@.scheduling), TRUE)]
                          ELSE re_nodes
    /\ re_req' = IdleReAttach
    /\ UNCHANGED <<re_node_rows, re_rows, re_cfg, reOthers>>

\* tenant_delete of the shard's tenant: the row is deleted, then the shard
\* leaves the map.
re_tenant_delete(id) ==
    /\ id \in DOMAIN re_tenants
    /\ re_rows' = Remove(re_rows, id)
    /\ re_tenants' = Remove(re_tenants, id)
    /\ UNCHANGED <<re_nodes, re_node_rows, re_req, re_cfg, re_response, reOthers>>

\* tenant_shard_migrate: the intent changes; the row is stamped only when a
\* reconciler increments the generation.
re_migrate(id, node_id) ==
    /\ id \in DOMAIN re_tenants
    /\ node_id \in DOMAIN re_nodes
    /\ re_tenants' = [re_tenants EXCEPT ![id].intent =
           MigrateIntent(Counted(@, <<>>), re_tenants[id].policy, node_id).intent]
    /\ re_tenants' # re_tenants
    /\ UNCHANGED <<re_nodes, re_node_rows, re_rows, re_req, re_cfg, re_response, reOthers>>

\* node_configure with a scheduling policy, its database call, made holding
\* the node's lock.
node_configure_db(node_id, scheduling) ==
    /\ re_cfg.pc = "idle"
    /\ node_id \in DOMAIN re_nodes
    /\ re_node_rows' = update_node(re_node_rows, node_id, scheduling)
    /\ re_cfg' = [pc |-> "persisted", node_id |-> node_id, scheduling |-> scheduling]
    /\ UNCHANGED <<re_nodes, re_tenants, re_rows, re_req, re_response, reOthers>>

\* node_configure, under the state lock: the policy is set in memory.
node_configure_inmem ==
    /\ re_cfg.pc = "persisted"
    /\ re_nodes' = NodeConfigure(re_nodes, re_cfg.node_id, re_cfg.scheduling)
    /\ re_cfg' = IdleConfigure
    /\ UNCHANGED <<re_node_rows, re_tenants, re_rows, re_req, re_response, reOthers>>

\* node_configure with availability Offline (the heartbeats): not persisted.
node_unavailable(node_id) ==
    /\ re_cfg.pc = "idle"
    /\ node_id \in DOMAIN re_nodes
    /\ re_nodes[node_id].available
    /\ re_nodes' = [re_nodes EXCEPT ![node_id].available = FALSE]
    /\ UNCHANGED <<re_node_rows, re_tenants, re_rows, re_req, re_cfg, re_response, reOthers>>

\* Nothing but the re_attach model moves.
ReOthersIdle ==
    /\ GenIdle
    /\ SplitIdle
    /\ OpsIdle
    /\ RcIdle
    /\ PlIdle
    /\ CrIdle
    /\ LaterIdle
    /\ vreq = <<>>
    /\ vresp = <<>>

\* The shards at startup: attached with generation 1 and a row stamped with
\* the attached node, or secondary only with no generation.
ReShardOptions ==
    {ReShard(1, "Attached1", i) : i \in IntentOptions}
        \cup {ReShard(NoGen, "Secondary", Intent(NoNode, {n})) : n \in Nodes}

\* TenantShard::to_persistent, and the node the generation was issued to.
ReRow(shard) == Row(shard.generation, shard.intent.attached)

\* The nodes Active and available, any placement of the shards.
InitReAttach ==
    /\ ReOthersIdle
    /\ re_nodes = [n \in Nodes |-> Node("Active", TRUE)]
    /\ re_node_rows = [n \in Nodes |-> "Active"]
    /\ re_tenants \in [ReShards -> ReShardOptions]
    /\ re_rows = [id \in ReShards |-> ReRow(re_tenants[id])]
    /\ re_req = IdleReAttach
    /\ re_cfg = IdleConfigure
    /\ re_response = <<>>

NextReAttach ==
    \/ \E n \in Nodes : re_attach_db(n)
    \/ re_attach_inmem
    \/ \E id \in ReShards : re_tenant_delete(id)
    \/ \E id \in ReShards, n \in Nodes : re_migrate(id, n)

SpecReAttach == InitReAttach /\ [][NextReAttach]_vars

\* No shard, the nodes with any policy, persisted as in memory.
InitReAttachNode ==
    /\ ReOthersIdle
    /\ re_nodes \in [Nodes -> {Node(p, a) : p \in SchedulingPolicies, a \in BOOLEAN}]
    /\ re_node_rows = [n \in Nodes |-> re_nodes[n].scheduling]
    /\ re_tenants = <<>>
    /\ re_rows = <<>>
    /\ re_req = IdleReAttach
    /\ re_cfg = IdleConfigure
    /\ re_response = <<>>

NextReAttachNode ==
    \/ \E n \in Nodes : re_attach_db(n)
    \/ re_attach_inmem
    \/ \E n \in Nodes, p \in SchedulingPolicies : node_configure_db(n, p)
    \/ node_configure_inmem
    \/ \E n \in Nodes : node_unavailable(n)

SpecReAttachNode == InitReAttachNode /\ [][NextReAttachNode]_vars

\* C17 as stated: the response of re_attach(A) has exactly one entry,
\* AttachedSingle with the previous generation plus one, for every shard whose
\* row was stamped with A, exactly one entry, Secondary without a generation,
\* for every other shard whose intent.secondary contains A, and no other entry.
C17_ReAttachResponseRows ==
    [][(re_req.pc = "persisted" /\ re_req'.pc = "idle") =>
        LET A == re_req.node_id
            resp == re_response'
            attached == DOMAIN re_req.before
            secondary == {id \in DOMAIN re_tenants \ attached : A \in re_tenants[id].intent.secondary}
            of(id) == {i \in 1..Len(resp) : resp[i].id = id}
        IN  /\ \A id \in attached :
                  /\ Cardinality(of(id)) = 1
                  /\ \A i \in of(id) : /\ resp[i].mode = "AttachedSingle"
                                       /\ resp[i].gen = re_req.before[id] + 1
            /\ \A id \in secondary :
                  /\ Cardinality(of(id)) = 1
                  /\ \A i \in of(id) : resp[i].mode = "Secondary" /\ resp[i].gen = NoGen
            /\ \A i \in 1..Len(resp) : resp[i].id \in attached \cup secondary]_vars

\* C17, amended: the same for the shards of the tenant map; a shard that left
\* the map after the database call has no entry.
C17_ReAttachResponse ==
    [][(re_req.pc = "persisted" /\ re_req'.pc = "idle") =>
        LET A == re_req.node_id
            resp == re_response'
            attached == DOMAIN re_req.before \cap DOMAIN re_tenants
            secondary == {id \in DOMAIN re_tenants \ attached : A \in re_tenants[id].intent.secondary}
            of(id) == {i \in 1..Len(resp) : resp[i].id = id}
        IN  /\ \A id \in attached :
                  /\ Cardinality(of(id)) = 1
                  /\ \A i \in of(id) : /\ resp[i].mode = "AttachedSingle"
                                       /\ resp[i].gen = re_req.before[id] + 1
            /\ \A id \in secondary :
                  /\ Cardinality(of(id)) = 1
                  /\ \A i \in of(id) : resp[i].mode = "Secondary" /\ resp[i].gen = NoGen
            /\ \A i \in 1..Len(resp) : resp[i].id \in attached \cup secondary]_vars

\* A response with an entry for a shard that was incremented and has a
\* secondary, and an entry for a shard that has the node as a secondary.
C17_Witness ==
    /\ re_req.pc = "idle"
    /\ Len(re_response) = 2
    /\ re_response[1].mode = "AttachedSingle" /\ re_response[1].gen = 2
    /\ re_response[2].mode = "Secondary" /\ re_response[2].gen = NoGen
    /\ \E n \in Nodes : n \in re_tenants[1].intent.secondary /\ n \in re_tenants[2].intent.secondary

\* C18: when re_attach(N) returns, N is available, a policy of
\* PauseForRestart, Draining or Filling that N had when the request arrived is
\* Active in memory and in the database, and a policy of Active or Pause is as
\* it was.
C18_ReAttachNode ==
    [][(re_req.pc = "persisted" /\ re_req'.pc = "idle") =>
        LET N == re_req.node_id
            was == re_req.scheduling
        IN  /\ re_nodes'[N].available
            /\ was \in {"PauseForRestart", "Draining", "Filling"} =>
                  re_nodes'[N].scheduling = "Active" /\ re_node_rows'[N] = "Active"
            /\ was \in {"Active", "Pause"} =>
                  re_nodes'[N].scheduling = was /\ re_node_rows'[N] = was]_vars

(***************************************************************************)
(* tenant_create: a new tenant, and a retry                                *)
(***************************************************************************)
NumConfigs == 2      \* tenant configs a create request can carry

Configs == 1..NumConfigs

MaxAttaches == 1     \* a reconciler attaches a shard while its generation is below this

\* The shard counts of create requests.
CreateCounts == {2}

\* The placement policies of create requests.
CreatePolicies == {"Attached1", "Secondary"}

\* TenantShard as tenant_create sees it.
CrShard(generation, policy, config, intent) ==
    [generation |-> generation, policy |-> policy, config |-> config, intent |-> intent]

\* TenantShardPersistence: the columns tenant_create writes.
CrRow(generation, placement_policy, config) ==
    [generation |-> generation, placement_policy |-> placement_policy, config |-> config]

\* TenantCreateResponseShard
TenantCreateResponseShard(shard_id, node_id, generation) ==
    [shard_id |-> shard_id, node_id |-> node_id, generation |-> generation]

\* The shards of the response: the attached location of a shard and its generation.
ResponseShards(shard_id, shard) ==
    IF shard.intent.attached = NoNode THEN <<>>
    ELSE <<TenantCreateResponseShard(shard_id, shard.intent.attached, shard.generation)>>

\* The shard with the intent that schedule() left, and whether it found the nodes.
CrScheduled(shard, r) == [ok |-> r.ok, shard |-> [shard EXCEPT !.intent = r.c.intent]]

\* The shard after schedule() with the nodes nd.
CrSchedule(shard, nd, preferred) ==
    CrScheduled(shard, schedule(Counted(shard.intent, <<>>), shard.policy, nd, preferred))

\* do_tenant_create for a shard that is in the map, with a mistake: the shard
\* takes the config of the request.
WrongCreateOccupied(shard, create_req, nd, preferred) ==
    CrSchedule([shard EXCEPT !.config = create_req.config], nd, preferred)

\* do_tenant_create for a shard that is in the map: it is scheduled.
CreateOccupied(shard, create_req, nd, preferred) == CrSchedule(shard, nd, preferred)

\* do_tenant_create for a shard that is not in the map: a new shard with the
\* policy, initial generation and config of the request, scheduled.
CreateVacant(create_req, nd, preferred) ==
    CrSchedule(CrShard(InitialGeneration(create_req.placement_policy, create_req.generation),
                       create_req.placement_policy, create_req.config, NoIntent),
               nd, preferred)

\* One turn of the loop of do_tenant_create for the shard id: the entry of the
\* map, occupied or vacant, after it.
CreateEntry(st, id, create_req, nd, preferred) ==
    IF id \in DOMAIN st.tenants
    THEN CreateOccupied(st.tenants[id], create_req, nd, preferred)
    ELSE CreateVacant(create_req, nd, preferred)

\* The map and the response after the entry r of the shard id: a schedule
\* error of an occupied entry ends the loop (`?`), one of a vacant entry is
\* kept for after the loop.
CreateStep(st, id, r) ==
    LET occupied == id \in DOMAIN st.tenants
    IN  [tenants |-> Put(st.tenants, id, r.shard),
         shards |-> IF r.ok \/ ~occupied
                    THEN st.shards \o ResponseShards(id, r.shard)
                    ELSE st.shards,
         ok |-> st.ok /\ r.ok,
         done |-> occupied /\ ~r.ok]

RECURSIVE CreateShards(_, _, _, _, _)
\* The loop goes on with the rest of create_ids unless the turn ended it.
CreateContinue(rest, next, create_req, nd, preferred) ==
    IF next.done THEN next ELSE CreateShards(rest, next, create_req, nd, preferred)

\* The loop of do_tenant_create over create_ids: st is the map, the response
\* so far, and whether a schedule error was met.
CreateShards(create_ids, st, create_req, nd, preferred) ==
    IF create_ids = <<>> THEN st
    ELSE CreateContinue(Tail(create_ids),
                        CreateStep(st, Head(create_ids),
                                   CreateEntry(st, Head(create_ids), create_req, nd, preferred)),
                        create_req, nd, preferred)

\* create_ids, in order.
CreateIds(count) == [i \in 1..count |-> <<count, i - 1>>]

\* tenant_create, holding the tenant's lock, up to the database call of
\* do_tenant_create: the rows are inserted, all or none.
tenant_create_db(count, placement_policy, generation, config) ==
    /\ cr_req.pc = "idle"
    /\ LET violation == \E id \in AllShards(count) : id \in DOMAIN cr_rows
           row == CrRow(InitialGeneration(placement_policy, generation), placement_policy, config)
       IN  /\ cr_rows' = IF violation THEN cr_rows
                         ELSE [id \in DOMAIN cr_rows \cup AllShards(count) |->
                                  IF id \in AllShards(count) THEN row ELSE cr_rows[id]]
           /\ cr_req' = [pc |-> "persisted", count |-> count,
                         placement_policy |-> placement_policy, generation |-> generation,
                         config |-> config, violation |-> violation]
    /\ UNCHANGED <<cr_nodes, cr_tenants, cr_response, crOthers>>

\* do_tenant_create under the state lock, and the response.
tenant_create_inmem(preferred) ==
    /\ cr_req.pc = "persisted"
    /\ LET after == CreateShards(CreateIds(cr_req.count),
                                 [tenants |-> cr_tenants, shards |-> <<>>, ok |-> TRUE, done |-> FALSE],
                                 cr_req, cr_nodes, preferred)
       IN  /\ cr_tenants' = after.tenants
           /\ cr_response' = [ok |-> after.ok, retry |-> cr_req.violation,
                               shards |-> IF after.ok THEN after.shards ELSE <<>>]
    /\ cr_req' = IdleCreate
    /\ UNCHANGED <<cr_nodes, cr_rows, crOthers>>

\* A reconciler attaches a shard: increment_generation, and process_result
\* raises the generation in memory.
cr_attach(id) ==
    /\ cr_req.pc = "idle"
    /\ id \in DOMAIN cr_tenants
    /\ cr_tenants[id].intent.attached # NoNode
    /\ cr_rows[id].generation # NoGen
    /\ cr_rows[id].generation < MaxAttaches
    /\ cr_rows' = [cr_rows EXCEPT ![id].generation = @ + 1]
    /\ cr_tenants' = [cr_tenants EXCEPT ![id].generation = cr_rows[id].generation + 1]
    /\ UNCHANGED <<cr_nodes, cr_req, cr_response, crOthers>>

\* node_configure: the availability of a node changes.
cr_node_availability(node_id) ==
    /\ cr_nodes' = [cr_nodes EXCEPT ![node_id].available = ~@]
    /\ UNCHANGED <<cr_tenants, cr_rows, cr_req, cr_response, crOthers>>

\* The nodes available, and no tenant.
InitCreate ==
    /\ GenIdle
    /\ SplitIdle
    /\ OpsIdle
    /\ RcIdle
    /\ PlIdle
    /\ ReIdle
    /\ LaterIdle
    /\ vreq = <<>>
    /\ vresp = <<>>
    /\ cr_nodes = [n \in Nodes |-> Node("Active", TRUE)]
    /\ cr_tenants = <<>>
    /\ cr_rows = <<>>
    /\ cr_req = IdleCreate
    /\ cr_response = <<>>

NextCreate ==
    \/ \E count \in CreateCounts, policy \in CreatePolicies, g \in {NoGen, 2}, config \in Configs :
          tenant_create_db(count, policy, g, config)
    \/ \E preferred \in Nodes : tenant_create_inmem(preferred)
    \/ \E id \in AllShards(2) : cr_attach(id)
    \/ \E n \in Nodes : cr_node_availability(n)

SpecCreate == InitCreate /\ [][NextCreate]_vars

C20_IdempotentCreate ==
    [][(cr_req.pc = "persisted" /\ cr_req'.pc = "idle" /\ cr_req.violation) =>
        /\ DOMAIN cr_tenants' = DOMAIN cr_tenants
        /\ cr_rows' = cr_rows
        /\ \A id \in DOMAIN cr_tenants :
              /\ cr_tenants'[id].generation = cr_tenants[id].generation
              /\ cr_tenants'[id].policy = cr_tenants[id].policy
              /\ cr_tenants'[id].config = cr_tenants[id].config
        /\ cr_response'.ok =>
              LET ids == {id \in AllShards(cr_req.count) : cr_tenants'[id].intent.attached # NoNode}
                  resp == cr_response'.shards
              IN  /\ Len(resp) = Cardinality(ids)
                  /\ \A i \in 1..Len(resp) :
                        /\ resp[i].shard_id \in ids
                        /\ resp[i].node_id = cr_tenants'[resp[i].shard_id].intent.attached
                        /\ resp[i].generation = cr_tenants[resp[i].shard_id].generation
                  /\ \A i, j \in 1..Len(resp) : resp[i].shard_id = resp[j].shard_id => i = j]_vars

\* A retry that succeeded, answered with the generation the shard has reached.
C20_Witness ==
    /\ cr_req.pc = "idle"
    /\ cr_response # <<>>
    /\ cr_response.retry
    /\ cr_response.ok
    /\ \E i \in 1..Len(cr_response.shards) :
          /\ cr_response.shards[i].generation = 1
          /\ cr_tenants[cr_response.shards[i].shard_id].generation = 1

(***************************************************************************)
(* tenant_delete                                                           *)
(***************************************************************************)
NumTdShards == 2     \* shards of the tenant that is deleted

TdShards == 1..NumTdShards

\* The parts of the model up to tenant_create are idle.
EarlierIdle ==
    /\ GenIdle
    /\ vreq = <<>>
    /\ vresp = <<>>
    /\ SplitIdle
    /\ OpsIdle
    /\ RcIdle
    /\ PlIdle
    /\ ReIdle
    /\ CrIdle

\* TenantShard as tenant_delete sees it: the policy, the attached location of
\* the intent, and the node the shard is observed attached to.
TdShard(policy, attached, observed) ==
    [policy |-> policy, attached |-> attached, observed |-> observed]

\* The results of the pageserver's tenant_delete: ACCEPTED, any other status,
\* a cancelled call, or another error.
RemoteResults == {"Ok", "Accepted", "Cancelled", "Err"}

\* The match on the results, with a mistake: ACCEPTED passes.
WrongRemoteDeleted(results) == \A id \in DOMAIN results : results[id] \in {"Ok", "Accepted"}

\* tenant_delete goes on to delete the rows when every result is Ok(_) other
\* than ACCEPTED.
RemoteDeleted(results) == \A id \in DOMAIN results : results[id] = "Ok"

\* The shard ids of a map, in order.
TdIds(m) == SortedIds(DOMAIN m)

\* The first critical section of tenant_delete for one shard: the policy is
\* Detached and schedule() leaves no location.
Detach(shard) == TdShard("Detached", NoNode, shard.observed)

\* The first critical section of tenant_delete: every shard is detached, and
\* maybe_reconcile_shard gives a waiter for each shard that is still observed
\* on a node; then a node is picked for the remote deletion.
td_begin(preferred) ==
    /\ td_req.pc = "idle"
    /\ LET shard_ids == TdIds(td_tenants)
           dirty == {id \in DOMAIN td_tenants : td_tenants[id].observed # NoNode}
           node_id == schedule_shard(td_nodes, {}, preferred)
       IN  /\ td_tenants' = [id \in DOMAIN td_tenants |-> Detach(td_tenants[id])]
           /\ td_rec' = [id \in DOMAIN td_rec |-> IF id \in dirty THEN "running" ELSE td_rec[id]]
           /\ IF node_id = NoNode
              THEN /\ td_req' = IdleDelete
                   /\ td_response' = "Err"
              ELSE /\ td_req' = [pc |-> "await", shard_ids |-> shard_ids,
                                 waiters |-> SortedIds(dirty), waited |-> {},
                                 results |-> <<>>, persisted |-> FALSE]
                   /\ td_response' = "none"
    /\ UNCHANGED <<td_nodes, td_rows, tdOthers>>

\* A Reconciler detaches a shard and process_result applies its result, or
\* it fails.
td_reconcile(id, ok) ==
    /\ id \in DOMAIN td_rec
    /\ td_rec[id] = "running"
    /\ td_rec' = [td_rec EXCEPT ![id] = IF ok THEN "ok" ELSE "failed"]
    /\ td_tenants' = IF ok THEN [td_tenants EXCEPT ![id].observed = NoNode] ELSE td_tenants
    /\ UNCHANGED <<td_nodes, td_rows, td_req, td_response, tdOthers>>

\* await_waiters: the wait for the next waiter ends with the reconcile done,
\* or with its error.
td_await ==
    /\ td_req.pc = "await"
    /\ IF td_req.waiters = <<>>
       THEN /\ td_req' = [td_req EXCEPT !.pc = "remote"]
            /\ UNCHANGED td_response
       ELSE LET id == Head(td_req.waiters)
            IN  /\ td_rec[id] # "running"
                /\ IF td_rec[id] = "ok"
                   THEN /\ td_req' = [td_req EXCEPT !.waiters = Tail(@), !.waited = @ \cup {id}]
                        /\ UNCHANGED td_response
                   ELSE /\ td_req' = [td_req EXCEPT !.pc = "idle"]
                        /\ td_response' = "Err"
    /\ UNCHANGED <<td_nodes, td_tenants, td_rows, td_rec, tdOthers>>

\* await_waiters: RECONCILE_TIMEOUT passes while a reconcile is running.
td_timeout ==
    /\ td_req.pc = "await"
    /\ td_req.waiters # <<>>
    /\ td_rec[Head(td_req.waiters)] = "running"
    /\ td_req' = [td_req EXCEPT !.pc = "idle"]
    /\ td_response' = "Err"
    /\ UNCHANGED <<td_nodes, td_tenants, td_rows, td_rec, tdOthers>>

\* tenant_for_shards_api(tenant_delete) and the match on its results.
td_remote(results) ==
    /\ td_req.pc = "remote"
    /\ DOMAIN results = {td_req.shard_ids[i] : i \in 1..Len(td_req.shard_ids)}
    /\ IF RemoteDeleted(results)
       THEN /\ td_req' = [td_req EXCEPT !.pc = "persist", !.results = results]
            /\ UNCHANGED td_response
       ELSE /\ td_req' = [td_req EXCEPT !.pc = "idle", !.results = results]
            /\ td_response' = "Err"
    /\ UNCHANGED <<td_nodes, td_tenants, td_rows, td_rec, tdOthers>>

\* persistence.delete_tenant, or its error.
td_delete_tenant(ok) ==
    /\ td_req.pc = "persist"
    /\ IF ok
       THEN /\ td_rows' = {}
            /\ td_req' = [td_req EXCEPT !.pc = "drop", !.persisted = TRUE]
            /\ UNCHANGED td_response
       ELSE /\ td_req' = [td_req EXCEPT !.pc = "idle"]
            /\ td_response' = "Err"
            /\ UNCHANGED td_rows
    /\ UNCHANGED <<td_nodes, td_tenants, td_rec, tdOthers>>

\* The last critical section of tenant_delete: the shards leave the map, and
\* the request returns NOT_FOUND.
td_drop ==
    /\ td_req.pc = "drop"
    /\ td_tenants' = <<>>
    /\ td_rec' = <<>>
    /\ td_req' = [td_req EXCEPT !.pc = "idle"]
    /\ td_response' = "NotFound"
    /\ UNCHANGED <<td_nodes, td_rows, tdOthers>>

\* reconcile_all: the reconcile of a shard that failed is spawned again.
td_reconcile_all(id) ==
    /\ id \in DOMAIN td_rec
    /\ td_rec[id] = "failed"
    /\ td_rec' = [td_rec EXCEPT ![id] = "running"]
    /\ UNCHANGED <<td_nodes, td_tenants, td_rows, td_req, td_response, tdOthers>>

\* tenant_create, holding the tenant's lock: the shards, attached, and
\* reconciled or not yet.
td_tenant_create(attached, reconciled) ==
    /\ td_req.pc = "idle"
    /\ td_tenants = <<>>
    /\ td_rows = {}
    /\ td_rows' = TdShards
    /\ td_tenants' = [id \in TdShards |->
                        TdShard("Attached", attached[id],
                                IF id \in reconciled THEN attached[id] ELSE NoNode)]
    /\ td_rec' = [id \in TdShards |-> "none"]
    /\ td_response' = "none"
    /\ UNCHANGED <<td_nodes, td_req, tdOthers>>

\* node_configure: the availability of a node changes.
td_node_availability(node_id) ==
    /\ td_nodes' = [td_nodes EXCEPT ![node_id].available = ~@]
    /\ UNCHANGED <<td_tenants, td_rows, td_rec, td_req, td_response, tdOthers>>

InitDelete ==
    /\ EarlierIdle
    /\ TlIdle
    /\ PsIdle
    /\ NcIdle
    /\ BgIdle
    /\ OvIdle
    /\ AuIdle
    /\ ObIdle
    /\ LkIdle
    /\ ApiIdle
    /\ SqIdle
    /\ td_nodes = [n \in Nodes |-> Node("Active", TRUE)]
    /\ td_tenants = <<>>
    /\ td_rows = {}
    /\ td_rec = <<>>
    /\ td_req = IdleDelete
    /\ td_response = "none"

NextDelete ==
    \/ \E preferred \in Nodes : td_begin(preferred)
    \/ \E id \in TdShards, ok \in BOOLEAN : td_reconcile(id, ok)
    \/ td_await
    \/ td_timeout
    \/ \E results \in [TdShards -> RemoteResults] : td_remote(results)
    \/ \E ok \in BOOLEAN : td_delete_tenant(ok)
    \/ td_drop
    \/ \E id \in TdShards : td_reconcile_all(id)
    \/ \E attached \in [TdShards -> Nodes], reconciled \in SUBSET TdShards :
          td_tenant_create(attached, reconciled)
    \/ \E n \in Nodes : td_node_availability(n)

SpecDelete == InitDelete /\ [][NextDelete]_vars

\* C21: shards leave the map only in the last step of a tenant_delete whose
\* delete_tenant succeeded; rows are deleted only after the pageserver's
\* tenant_delete succeeded for every shard of the request; that is called
\* only after every detach reconcile the request waited for completed, so no
\* shard is observed on a node any more; and a step of tenant_delete that
\* fails or times out leaves every shard in the map and every row in place.
C21_DeleteOrder ==
    [][/\ DOMAIN td_tenants' # DOMAIN td_tenants /\ td_tenants' = <<>> =>
             /\ td_req.pc = "drop"
             /\ td_req.persisted
             /\ td_rows = {}
       /\ td_rows' = {} /\ td_rows # {} =>
             /\ td_req.pc = "persist"
             /\ \A i \in 1..Len(td_req.shard_ids) : td_req.results[td_req.shard_ids[i]] = "Ok"
       /\ td_req'.pc = "persist" /\ td_req.pc = "remote" =>
             /\ td_req.waiters = <<>>
             /\ \A id \in DOMAIN td_tenants :
                   td_tenants[id].observed = NoNode /\ td_rec[id] \in {"none", "ok"}
       /\ td_response' = "Err" =>
             /\ DOMAIN td_tenants' = DOMAIN td_tenants
             /\ td_rows' = td_rows
             /\ td_req'.pc = "idle"]_vars

\* A tenant_delete that waited for the detach of every shard and returned
\* NOT_FOUND: no shard in the map and no row.
C21_Witness ==
    /\ td_response = "NotFound"
    /\ td_req.waited = TdShards
    /\ td_tenants = <<>>
    /\ td_rows = {}

(***************************************************************************)
(* The tenant's operation lock: split, its abort job, and timeline requests *)
(***************************************************************************)
NumLkReqs == 2       \* requests on the tenant
MaxAbortAttempts == 2 \* the abort job fails while its failed attempts are below this

LkReqs == 1..NumLkReqs

\* The abort job as the holder of a guard.
AbortJob == 0

\* TenantOperations whose handler takes the tenant's lock exclusively.
ExclusiveOperations ==
    {"ShardSplit", "Create", "Delete", "LocationConfig", "ConfigSet", "UpdatePolicy"}

\* TenantOperations whose handler takes the tenant's lock shared.
SharedOperations == {"TimelineCreate", "TimelineDelete"}

\* The mode in which the handler of an operation takes the lock.
LockMode(kind) == IF kind \in SharedOperations THEN "shared" ELSE "exclusive"

\* A guard of the tenant's lock.
Guard(by, mode) == [by |-> by, mode |-> mode]

\* The lock with a mistake: a shared guard is given while an exclusive one is held.
WrongCanLock(guards, mode) ==
    IF mode = "exclusive" THEN guards = {} ELSE TRUE

\* IdLockMap (a RwLock per tenant): an exclusive guard is given when no guard
\* is held, a shared guard when no exclusive guard is held.
CanLock(guards, mode) ==
    IF mode = "exclusive" THEN guards = {}
    ELSE \A g \in guards : g.mode = "shared"

\* A request arrives and waits for the lock.
lk_request(r, kind) ==
    /\ lk_req[r].pc \in {"idle", "done"}
    /\ lk_req' = [lk_req EXCEPT ![r] = [kind |-> kind, pc |-> "waiting", result |-> "none",
                                        contacted |-> FALSE]]
    /\ UNCHANGED <<lk_guards, lk_splitting, lk_abort, lk_cancel, lk_part_split, lkOthers>>

\* trace_exclusive_lock / trace_shared_lock: the request gets its guard.
lk_lock(r) ==
    /\ lk_req[r].pc = "waiting"
    /\ CanLock(lk_guards, LockMode(lk_req[r].kind))
    /\ lk_guards' = lk_guards \cup {Guard(r, LockMode(lk_req[r].kind))}
    /\ lk_req' = [lk_req EXCEPT ![r].pc = "locked"]
    /\ UNCHANGED <<lk_splitting, lk_abort, lk_cancel, lk_part_split, lkOthers>>

\* ensure_attached_wait of a timeline request: ResourceUnavailable when a
\* shard of the tenant is splitting.
lk_ensure_attached_wait(r) ==
    /\ lk_req[r].pc = "locked"
    /\ lk_req[r].kind \in SharedOperations
    /\ IF lk_splitting
       THEN /\ lk_req' = [lk_req EXCEPT ![r].pc = "done", ![r].result = "ResourceUnavailable"]
            /\ lk_guards' = {g \in lk_guards : g.by # r}
       ELSE /\ lk_req' = [lk_req EXCEPT ![r].pc = "attached"]
            /\ UNCHANGED lk_guards
    /\ UNCHANGED <<lk_splitting, lk_abort, lk_cancel, lk_part_split, lkOthers>>

\* tenant_timeline_create / tenant_timeline_delete: the calls to the
\* pageservers, and the return.
lk_timeline(r) ==
    /\ lk_req[r].pc = "attached"
    /\ lk_req' = [lk_req EXCEPT ![r].pc = "done", ![r].result = "Ok", ![r].contacted = TRUE]
    /\ lk_guards' = {g \in lk_guards : g.by # r}
    /\ UNCHANGED <<lk_splitting, lk_abort, lk_cancel, lk_part_split, lkOthers>>

\* The handler of an exclusive operation other than a split runs and returns.
lk_exclusive(r) ==
    /\ lk_req[r].pc = "locked"
    /\ lk_req[r].kind \in ExclusiveOperations \ {"ShardSplit"}
    /\ lk_req' = [lk_req EXCEPT ![r].pc = "done", ![r].result = "Ok"]
    /\ lk_guards' = {g \in lk_guards : g.by # r}
    /\ UNCHANGED <<lk_splitting, lk_abort, lk_cancel, lk_part_split, lkOthers>>

\* tenant_shard_split: prepare_tenant_shard_split fails or finds nothing to do
\* and the request returns, or do_tenant_shard_split begins and marks the
\* shards Splitting.
lk_split_prepare(r, split) ==
    /\ lk_req[r].pc = "locked"
    /\ lk_req[r].kind = "ShardSplit"
    /\ split => ~lk_splitting
    /\ IF split
       THEN /\ lk_req' = [lk_req EXCEPT ![r].pc = "splitting"]
            /\ lk_splitting' = TRUE
            /\ UNCHANGED lk_guards
       ELSE /\ lk_req' = [lk_req EXCEPT ![r].pc = "done", ![r].result = "NoOp"]
            /\ lk_guards' = {g \in lk_guards : g.by # r}
            /\ UNCHANGED lk_splitting
    /\ UNCHANGED <<lk_abort, lk_cancel, lk_part_split, lkOthers>>

\* The guards after a split failed, with a mistake: the guard of the request
\* is dropped when the request returns.
WrongSendAbort(guards, r) == {g \in guards : g.by # r}

\* The guards after a split failed: the guard of the request has moved into
\* the TenantShardSplitAbort that was sent.
SendAbort(guards, r) == {g \in guards : g.by # r} \cup {Guard(AbortJob, "exclusive")}

\* tenant_shard_split after do_tenant_shard_split: the split is committed, or
\* it failed and the guard goes with a TenantShardSplitAbort to abort_tx;
\* when process_aborts has ended the send fails and the guard is dropped.
lk_split_result(r, ok) ==
    /\ lk_req[r].pc = "splitting"
    /\ IF ok
       THEN /\ lk_req' = [lk_req EXCEPT ![r].pc = "done", ![r].result = "Ok"]
            /\ lk_splitting' = FALSE
            /\ lk_guards' = {g \in lk_guards : g.by # r}
            /\ UNCHANGED <<lk_abort, lk_part_split>>
       ELSE /\ lk_req' = [lk_req EXCEPT ![r].pc = "done", ![r].result = "Err"]
            /\ lk_part_split' = TRUE
            /\ UNCHANGED lk_splitting
            /\ IF lk_abort.state = "ended"
               THEN /\ lk_guards' = {g \in lk_guards : g.by # r}
                    /\ UNCHANGED lk_abort
               ELSE /\ lk_guards' = SendAbort(lk_guards, r)
                    /\ lk_abort' = [state |-> "queued", attempts |-> 0]
    /\ UNCHANGED <<lk_cancel, lkOthers>>

\* process_aborts: one call of abort_tenant_shard_split.  When it succeeds the
\* shards are Idle again and the job, with its guard, is dropped; when it
\* fails it is tried again.
lk_abort_tenant_shard_split(ok) ==
    /\ lk_abort.state = "queued"
    /\ ~lk_cancel
    /\ ok \/ lk_abort.attempts < MaxAbortAttempts
    /\ IF ok
       THEN /\ lk_abort' = NoAbort
            /\ lk_splitting' = FALSE
            /\ lk_part_split' = FALSE
            /\ lk_guards' = {g \in lk_guards : g.by # AbortJob}
       ELSE /\ lk_abort' = [lk_abort EXCEPT !.attempts = @ + 1]
            /\ UNCHANGED <<lk_splitting, lk_part_split, lk_guards>>
    /\ UNCHANGED <<lk_req, lk_cancel, lkOthers>>

\* Shutdown: the cancellation token is cancelled.
lk_shutdown ==
    /\ ~lk_cancel
    /\ lk_cancel' = TRUE
    /\ UNCHANGED <<lk_guards, lk_req, lk_splitting, lk_abort, lk_part_split, lkOthers>>

\* process_aborts sees the cancellation and ends: the job it holds is dropped
\* with its guard, and the receiver of abort_tx is gone.
lk_process_aborts_end ==
    /\ lk_cancel
    /\ lk_abort.state # "ended"
    /\ lk_abort' = [state |-> "ended", attempts |-> lk_abort.attempts]
    /\ lk_guards' = {g \in lk_guards : g.by # AbortJob}
    /\ UNCHANGED <<lk_req, lk_splitting, lk_cancel, lk_part_split, lkOthers>>

InitLocks ==
    /\ EarlierIdle
    /\ TlIdle
    /\ PsIdle
    /\ NcIdle
    /\ BgIdle
    /\ OvIdle
    /\ AuIdle
    /\ ObIdle
    /\ TdIdle
    /\ ApiIdle
    /\ SqIdle
    /\ lk_guards = {}
    /\ lk_req = [r \in LkReqs |-> IdleLockRequest]
    /\ lk_splitting = FALSE
    /\ lk_abort = NoAbort
    /\ lk_cancel = FALSE
    /\ lk_part_split = FALSE

NextLocks ==
    \/ \E r \in LkReqs, kind \in ExclusiveOperations \cup SharedOperations : lk_request(r, kind)
    \/ \E r \in LkReqs : lk_lock(r)
    \/ \E r \in LkReqs : lk_ensure_attached_wait(r)
    \/ \E r \in LkReqs : lk_timeline(r)
    \/ \E r \in LkReqs : lk_exclusive(r)
    \/ \E r \in LkReqs, split \in BOOLEAN : lk_split_prepare(r, split)
    \/ \E r \in LkReqs, ok \in BOOLEAN : lk_split_result(r, ok)
    \/ \E ok \in BOOLEAN : lk_abort_tenant_shard_split(ok)
    \/ lk_shutdown
    \/ lk_process_aborts_end

SpecLocks == InitLocks /\ [][NextLocks]_vars

\* The requests whose handler is running with the lock.
Running(r) == lk_req[r].pc \in {"locked", "attached", "splitting"}

\* C22: while a split of the tenant runs no other split, create, delete or
\* timeline create/delete of the tenant runs; and a timeline create/delete
\* that finds a shard Splitting returns ResourceUnavailable and has called no
\* pageserver.
C22_SplitExclusive ==
    /\ [](\A r, o \in LkReqs :
             (r # o /\ Running(r) /\ lk_req[r].kind = "ShardSplit") => ~Running(o))
    /\ [][\A r \in LkReqs :
             (lk_req[r].kind \in SharedOperations /\ lk_req[r].pc = "locked"
                 /\ lk_req'[r].pc # "locked" /\ lk_splitting) =>
                 /\ lk_req'[r].result = "ResourceUnavailable"
                 /\ ~lk_req'[r].contacted
                 /\ lk_req'[r].pc = "done"]_vars

\* Two timeline requests run at the same time, and a timeline request was
\* refused because a shard is splitting.
C22_Witness ==
    /\ lk_req[1].kind \in SharedOperations
    /\ lk_req[1].pc = "attached"
    /\ lk_req[2].kind \in SharedOperations
    /\ lk_req[2].pc = "attached"

\* C25 as stated: once a split has failed, no request gets the tenant's lock
\* until the abort job has completed successfully.
C25_AbortHoldsLock ==
    [][lk_part_split => \A r \in LkReqs : lk_req[r].pc = "waiting" => lk_req'[r].pc = "waiting"]_vars

\* C25, amended: once a split has failed, and until the abort job has
\* completed successfully, the abort job holds the exclusive guard and no
\* request gets the lock, however often the abort is tried, unless the
\* service is shutting down.
C25_AbortHoldsLockUntilShutdown ==
    /\ []((lk_part_split /\ ~lk_cancel) =>
             lk_guards = {Guard(AbortJob, "exclusive")} /\ lk_abort.state = "queued")
    /\ [][(lk_part_split /\ ~lk_cancel') =>
             \A r \in LkReqs : lk_req[r].pc = "waiting" => lk_req'[r].pc = "waiting"]_vars

\* The abort of a failed split was tried and failed, a request is waiting
\* for the lock, and the abort job holds it.
C25_Witness ==
    /\ lk_part_split
    /\ ~lk_cancel
    /\ lk_abort.attempts = MaxAbortAttempts
    /\ \E r \in LkReqs : lk_req[r].pc = "waiting"
    /\ Guard(AbortJob, "exclusive") \in lk_guards

(***************************************************************************)
(* pageserver_api::models: PagestreamFeMessage and AuxFilePolicy           *)
(*                                                                         *)
(* A u64 is a sequence of four 16-bit limbs and a u32 of two, the most     *)
(* significant first; a u8 is an integer of 0..255.  Bytes are integers of *)
(* 0..255.                                                                 *)
(***************************************************************************)
\* The u8 values of a message.
U8s == {0, 1, 255}

U32s == {<<0, 0>>, <<1, 258>>, <<65535, 65535>>}

U64s == {<<0, 0, 0, 0>>, <<0, 1, 258, 65535>>, <<65535, 65535, 65535, 65535>>}

\* Lsn::MAX
LsnMax == <<65535, 65535, 65535, 65535>>

\* A limb written with the least significant byte first.
WrongPutU16(limb) == <<limb % 256, limb \div 256>>

\* BufMut::put_u16 and the limbs of put_u32 and put_u64: big-endian.
PutU16(limb) == <<limb \div 256, limb % 256>>

put_u8(v) == <<v>>

put_u32(v) == PutU16(v[1]) \o PutU16(v[2])

put_u64(v) == PutU16(v[1]) \o PutU16(v[2]) \o PutU16(v[3]) \o PutU16(v[4])

\* RelTag
RelTag(spcnode, dbnode, relnode, forknum) ==
    [spcnode |-> spcnode, dbnode |-> dbnode, relnode |-> relnode, forknum |-> forknum]

RelTags == {RelTag(s, d, r, f) : s \in {<<0, 0>>, <<1, 258>>}, d \in {<<0, 0>>, <<65535, 65535>>},
                                  r \in {<<1, 258>>}, f \in U8s}

\* The messages of PagestreamFeMessage.
PagestreamFeMessages ==
    [kind : {"Exists", "Nblocks"}, request_lsn : U64s, not_modified_since : U64s, rel : RelTags]
    \cup [kind : {"GetPage"}, request_lsn : U64s, not_modified_since : U64s, rel : RelTags,
          blkno : U32s]
    \cup [kind : {"DbSize"}, request_lsn : U64s, not_modified_since : U64s, dbnode : U32s]
    \cup [kind : {"GetSlruSegment"}, request_lsn : U64s, not_modified_since : U64s,
          slru_kind : U8s, segno : U32s]

put_rel(rel) ==
    put_u32(rel.spcnode) \o put_u32(rel.dbnode) \o put_u32(rel.relnode) \o put_u8(rel.forknum)

\* PagestreamFeMessage::serialize
serialize(req) ==
    IF req.kind = "Exists"
    THEN put_u8(0) \o put_u64(req.request_lsn) \o put_u64(req.not_modified_since) \o put_rel(req.rel)
    ELSE IF req.kind = "Nblocks"
    THEN put_u8(1) \o put_u64(req.request_lsn) \o put_u64(req.not_modified_since) \o put_rel(req.rel)
    ELSE IF req.kind = "GetPage"
    THEN put_u8(2) \o put_u64(req.request_lsn) \o put_u64(req.not_modified_since)
             \o put_rel(req.rel) \o put_u32(req.blkno)
    ELSE IF req.kind = "DbSize"
    THEN put_u8(3) \o put_u64(req.request_lsn) \o put_u64(req.not_modified_since)
             \o put_u32(req.dbnode)
    ELSE put_u8(4) \o put_u64(req.request_lsn) \o put_u64(req.not_modified_since)
             \o put_u8(req.slru_kind) \o put_u32(req.segno)

\* ReadBytesExt: the reads of parse at a position of the body, big-endian.
read_u16(body, pos) == body[pos] * 256 + body[pos + 1]

read_u32(body, pos) == <<read_u16(body, pos), read_u16(body, pos + 2)>>

read_u64(body, pos) ==
    <<read_u16(body, pos), read_u16(body, pos + 2), read_u16(body, pos + 4), read_u16(body, pos + 6)>>

read_rel(body, pos) ==
    RelTag(read_u32(body, pos), read_u32(body, pos + 4), read_u32(body, pos + 8), body[pos + 12])

\* The bytes parse reads after the tag for the LSNs.
PrefixLen(protocol_version) == IF protocol_version = "V2" THEN 16 ELSE 9

\* The bytes parse reads after the LSNs for a tag.
BodyLen(msg_tag) ==
    IF msg_tag \in {0, 1} THEN 13
    ELSE IF msg_tag = 2 THEN 17
    ELSE IF msg_tag = 3 THEN 4
    ELSE 5

ParseError == [ok |-> FALSE]

\* PagestreamFeMessage::parse: an error when the body ends before a read or
\* the tag is unknown, else the message.
parse(body, protocol_version) ==
    IF Len(body) < 1 + PrefixLen(protocol_version) THEN ParseError
    ELSE LET msg_tag == body[1]
             latest == body[2] # 0
             request_lsn == IF protocol_version = "V2" THEN read_u64(body, 2)
                            ELSE IF latest THEN LsnMax ELSE read_u64(body, 3)
             not_modified_since == IF protocol_version = "V2" THEN read_u64(body, 10)
                                   ELSE read_u64(body, 3)
             p == 2 + PrefixLen(protocol_version)
         IN  IF msg_tag \notin 0..4 THEN ParseError
             ELSE IF Len(body) < 1 + PrefixLen(protocol_version) + BodyLen(msg_tag) THEN ParseError
             ELSE IF msg_tag = 0
             THEN [ok |-> TRUE,
                   msg |-> [kind |-> "Exists", request_lsn |-> request_lsn,
                            not_modified_since |-> not_modified_since, rel |-> read_rel(body, p)]]
             ELSE IF msg_tag = 1
             THEN [ok |-> TRUE,
                   msg |-> [kind |-> "Nblocks", request_lsn |-> request_lsn,
                            not_modified_since |-> not_modified_since, rel |-> read_rel(body, p)]]
             ELSE IF msg_tag = 2
             THEN [ok |-> TRUE,
                   msg |-> [kind |-> "GetPage", request_lsn |-> request_lsn,
                            not_modified_since |-> not_modified_since, rel |-> read_rel(body, p),
                            blkno |-> read_u32(body, p + 13)]]
             ELSE IF msg_tag = 3
             THEN [ok |-> TRUE,
                   msg |-> [kind |-> "DbSize", request_lsn |-> request_lsn,
                            not_modified_since |-> not_modified_since,
                            dbnode |-> read_u32(body, p)]]
             ELSE [ok |-> TRUE,
                   msg |-> [kind |-> "GetSlruSegment", request_lsn |-> request_lsn,
                            not_modified_since |-> not_modified_since,
                            slru_kind |-> body[p], segno |-> read_u32(body, p + 1)]]

\* AuxFilePolicy, and None for an Option<AuxFilePolicy>.
AuxFilePolicies == {"V1", "V2", "CrossValidation"}

\* The match with a mistake: CrossValidation may move to any policy.
WrongIsValidMigrationPath(from, to) == from = "None" \/ from = "CrossValidation"

\* AuxFilePolicy::is_valid_migration_path
is_valid_migration_path(from, to) ==
    \/ from = "None"
    \/ from = "CrossValidation" /\ to = "V2"

\* test_pagestream: a message is serialized and the bytes are parsed.
pagestream_roundtrip(msg, protocol_version) ==
    /\ api_call = NoCall
    /\ api_call' = [fn |-> "parse", msg |-> msg, protocol_version |-> protocol_version,
                    bytes |-> serialize(msg),
                    parsed |-> parse(serialize(msg), protocol_version)]
    /\ UNCHANGED apiOthers

\* The bytes of a message that were cut short are parsed.
pagestream_truncated(msg, len, protocol_version) ==
    /\ api_call = NoCall
    /\ len < Len(serialize(msg))
    /\ api_call' = [fn |-> "parse_truncated", msg |-> msg, protocol_version |-> protocol_version,
                    bytes |-> SubSeq(serialize(msg), 1, len),
                    parsed |-> parse(SubSeq(serialize(msg), 1, len), protocol_version)]
    /\ UNCHANGED apiOthers

\* A call of is_valid_migration_path.
aux_file_migration(from, to) ==
    /\ api_call = NoCall
    /\ api_call' = [fn |-> "is_valid_migration_path", from |-> from, to |-> to,
                    valid |-> is_valid_migration_path(from, to)]
    /\ UNCHANGED apiOthers

\* The caller has used the result.
api_return ==
    /\ api_call # NoCall
    /\ api_call' = NoCall
    /\ UNCHANGED apiOthers

InitModels ==
    /\ EarlierIdle
    /\ TlIdle
    /\ PsIdle
    /\ NcIdle
    /\ BgIdle
    /\ OvIdle
    /\ AuIdle
    /\ ObIdle
    /\ TdIdle
    /\ LkIdle
    /\ SqIdle
    /\ api_call = NoCall

NextModels ==
    \/ \E msg \in PagestreamFeMessages, v \in {"V1", "V2"} : pagestream_roundtrip(msg, v)
    \/ \E msg \in PagestreamFeMessages, len \in {0, 1, 16, 17, 20}, v \in {"V1", "V2"} :
          pagestream_truncated(msg, len, v)
    \/ \E from \in AuxFilePolicies \cup {"None"}, to \in AuxFilePolicies :
          aux_file_migration(from, to)
    \/ api_return

SpecModels == InitModels /\ [][NextModels]_vars

\* C23: the bytes of m.serialize(), parsed with protocol version V2, give a
\* message equal to m, for m of each of the five kinds.
C23_PagestreamRoundTrip ==
    (api_call.fn = "parse" /\ api_call.protocol_version = "V2") =>
        api_call.parsed = [ok |-> TRUE, msg |-> api_call.msg]

\* A GetPage request whose fields have limbs of two different bytes was
\* serialized to 34 bytes and parsed with V2.
C23_Witness ==
    /\ api_call.fn = "parse"
    /\ api_call.protocol_version = "V2"
    /\ api_call.msg.kind = "GetPage"
    /\ api_call.msg.request_lsn = <<0, 1, 258, 65535>>
    /\ api_call.msg.blkno = <<1, 258>>
    /\ Len(api_call.bytes) = 34
    /\ api_call.parsed.ok

\* C24: is_valid_migration_path(from, to) is true exactly when from is None,
\* or from is CrossValidation and to is V2.
C24_MigrationPath ==
    api_call.fn = "is_valid_migration_path" =>
        (api_call.valid <=> (api_call.from = "None"
                                \/ (api_call.from = "CrossValidation" /\ api_call.to = "V2")))

\* A self-migration was rejected.
C24_Witness ==
    /\ api_call.fn = "is_valid_migration_path"
    /\ api_call.from = "CrossValidation"
    /\ api_call.to = "CrossValidation"
    /\ ~api_call.valid

(***************************************************************************)
(* The sequence of a shard and the changes of its intent                   *)
(***************************************************************************)
MaxSeq == 3          \* the intent changes while the shard's sequence is below this

\* TenantShard as the operations that change its intent see it.
SqShard(policy, intent, sequence) == [policy |-> policy, intent |-> intent, sequence |-> sequence]

\* Sequence::next
SequenceNext(sequence) == sequence + 1

\* The shard with the intent c left by IntentState methods called from
\* Service: the sequence is what the caller makes of it.
SqWithIntent(shard, c, sequence) == [shard EXCEPT !.intent = c.intent, !.sequence = sequence]

\* TenantShard::schedule: the sequence advances when the intent changed.
SqSchedule(shard, nd, preferred) ==
    LET r == schedule(Counted(shard.intent, <<>>), shard.policy, nd, preferred)
    IN  SqWithIntent(shard, r.c,
                     IF r.c.intent # shard.intent THEN SequenceNext(shard.sequence)
                     ELSE shard.sequence)

\* tenant_shard_migrate: unless the shard is attached to the node already,
\* the intent changes and the sequence advances.
SqMigrate(shard, node_id) ==
    IF shard.intent.attached = node_id THEN shard
    ELSE SqWithIntent(shard, MigrateIntent(Counted(shard.intent, <<>>), shard.policy, node_id),
                      SequenceNext(shard.sequence))

\* attach_hook: the policy, and intent.set_attached.
SqAttachHook(shard, node_id) ==
    SqWithIntent([shard EXCEPT !.policy = IF node_id = NoNode THEN "Detached" ELSE "Attached0"],
                 set_attached(Counted(shard.intent, <<>>), node_id), shard.sequence)

\* do_tenant_shard_split, before the split is sent to the pageservers:
\* intent.clear_secondary.
SqSplitClearSecondary(shard) ==
    SqWithIntent(shard, clear_secondary(Counted(shard.intent, <<>>)), shard.sequence)

\* node_configure, ToOffline: when demote_attached changed the intent the
\* sequence advances and the shard is scheduled.
SqOffline(shard, node_id, nd, preferred) ==
    IF Cardinality(DOMAIN nd) = 1 \/ ~\E n \in DOMAIN nd : MaySchedule(nd[n]) THEN shard
    ELSE IF shard.intent.attached # node_id THEN shard
    ELSE SqSchedule(SqWithIntent(shard, demote_attached(Counted(shard.intent, <<>>), node_id),
                                 SequenceNext(shard.sequence)),
                    nd, preferred)

sq_tenant_shard_migrate(node_id) ==
    /\ sq_shard.sequence < MaxSeq
    /\ sq_shard.policy # "Detached"
    /\ sq_shard' = SqMigrate(sq_shard, node_id)
    /\ UNCHANGED <<sq_nodes, sqOthers>>

sq_attach_hook(node_id) ==
    /\ sq_shard.sequence < MaxSeq
    /\ sq_shard' = SqAttachHook(sq_shard, node_id)
    /\ UNCHANGED <<sq_nodes, sqOthers>>

sq_do_tenant_shard_split ==
    /\ sq_shard.sequence < MaxSeq
    /\ sq_shard.intent.attached # NoNode
    /\ sq_shard' = SqSplitClearSecondary(sq_shard)
    /\ UNCHANGED <<sq_nodes, sqOthers>>

\* tenant_update_policy: the policy is set and the shard is scheduled.
sq_tenant_update_policy(policy, preferred) ==
    /\ sq_shard.sequence < MaxSeq
    /\ sq_shard' = SqSchedule([sq_shard EXCEPT !.policy = policy], sq_nodes, preferred)
    /\ UNCHANGED <<sq_nodes, sqOthers>>

\* node_configure: a node goes offline, or comes back.
sq_node_configure(node_id, available, preferred) ==
    /\ sq_shard.sequence + 1 < MaxSeq
    /\ sq_nodes[node_id].available # available
    /\ sq_nodes' = [sq_nodes EXCEPT ![node_id].available = available]
    /\ sq_shard' = IF available THEN sq_shard
                   ELSE SqOffline(sq_shard, node_id,
                                  [sq_nodes EXCEPT ![node_id].available = available], preferred)
    /\ UNCHANGED sqOthers

InitSequence ==
    /\ EarlierIdle
    /\ TlIdle
    /\ PsIdle
    /\ NcIdle
    /\ BgIdle
    /\ OvIdle
    /\ AuIdle
    /\ ObIdle
    /\ TdIdle
    /\ LkIdle
    /\ ApiIdle
    /\ sq_nodes = [n \in Nodes |-> Node("Active", TRUE)]
    /\ sq_shard = SqShard("Detached", NoIntent, 1)

NextSequence ==
    \/ \E n \in Nodes : sq_tenant_shard_migrate(n)
    \/ \E n \in OptNodes : sq_attach_hook(n)
    \/ sq_do_tenant_shard_split
    \/ \E policy \in PlacementPolicies, preferred \in Nodes : sq_tenant_update_policy(policy, preferred)
    \/ \E n \in Nodes, available \in BOOLEAN, preferred \in Nodes :
          sq_node_configure(n, available, preferred)

SpecSequence == InitSequence /\ [][NextSequence]_vars

\* C26: a step that changes the shard's intent strictly increases the
\* shard's sequence, and no step decreases the sequence.
C26_SequenceBumped ==
    [][/\ sq_shard'.intent # sq_shard.intent => sq_shard'.sequence > sq_shard.sequence
       /\ sq_shard'.sequence >= sq_shard.sequence]_vars

(***************************************************************************)
(* The observed state of a shard, its last error, and the operations of    *)
(* Service that write them                                                 *)
(***************************************************************************)
MaxObSeq == 2        \* the intent changes while the shard's sequence is below this
MaxObGen == 2        \* generations are issued while the shard's generation is below this
MaxObResults == 1    \* ReconcileResults waiting in the result channel
MaxObTasks == 1      \* Reconciler tasks in flight, the cancelled ones included

\* ObservedStateLocation { conf: None }: what the node holds is unknown.
NoConf == [mode |-> "None", generation |-> 0]

\* attached_location_conf: the node holds the shard attached in a generation.
AttachedConf(generation) == [mode |-> "AttachedSingle", generation |-> generation]

\* The observed locations a node may report, or a reconcile may leave.
ObConfs == {NoConf} \cup {AttachedConf(g) : g \in 1..MaxObGen}

\* ObservedState.locations with the locations of another map inserted.
InsertLocations(locations, more) ==
    [n \in DOMAIN locations \cup DOMAIN more |->
        IF n \in DOMAIN more THEN more[n] ELSE locations[n]]

\* TenantShard as the writers of its observed state see it.  last_error is
\* the sequence of the result whose error it holds, 0 for None; reconciler is
\* the sequence of the ReconcilerHandle, 0 for None.
ObShard(intent, observed) ==
    [intent |-> intent, observed |-> observed, generation |-> 1, sequence |-> 1,
     waiter |-> 0, last_error |-> 0, reconciler |-> 0,
     pending_compute_notification |-> FALSE]

\* The observed state that matches the intent: the attached location alone.
WantedObserved(intent, generation) ==
    [n \in (IF intent = NoNode THEN {} ELSE {intent}) |-> AttachedConf(generation)]

\* TenantShard::get_reconcile_needed
ObGetReconcileNeeded(shard) ==
    IF /\ ~shard.pending_compute_notification
       /\ shard.observed = WantedObserved(shard.intent, shard.generation)
    THEN "No"
    ELSE IF shard.reconciler = shard.sequence THEN "WaitExisting"
    ELSE "Yes"

\* A Reconciler task and the snapshot it was spawned with.
ObReconciler(shard) ==
    [sequence |-> shard.sequence, intent |-> shard.intent, generation |-> shard.generation,
     cancelled |-> FALSE]

ObState(shard, tsks) == [shard |-> shard, tasks |-> tsks]

\* TenantShard::spawn_reconciler: a reconciler of an older sequence is cancelled.
ObSpawnReconciler(shard, tsks) ==
    ObState([shard EXCEPT !.reconciler = shard.sequence],
            {[t EXCEPT !.cancelled = TRUE] : t \in tsks} \cup {ObReconciler(shard)})

\* A maybe_reconcile_shard that takes the locations of the shard for unknown
\* when it spawns a Reconciler.
WrongObMaybeReconcileShard(shard, tsks) ==
    IF ObGetReconcileNeeded(shard) = "Yes"
    THEN ObSpawnReconciler([shard EXCEPT !.observed = [n \in DOMAIN @ |-> NoConf]], tsks)
    ELSE ObState(shard, tsks)

\* maybe_reconcile_shard: nothing for ReconcileNeeded::No and WaitExisting,
\* a new Reconciler for Yes (one shard never exhausts reconciler_concurrency).
ObMaybeReconcileShard(shard, tsks) ==
    IF ObGetReconcileNeeded(shard) = "Yes" THEN ObSpawnReconciler(shard, tsks)
    ELSE ObState(shard, tsks)

ObResult(task, ok, observed, pending) ==
    [sequence |-> task.sequence, generation |-> task.generation, observed |-> observed,
     pending_compute_notification |-> pending, ok |-> ok]

\* TenantShard::reconcile_complete
ObReconcileComplete(shard, sequence) ==
    [shard EXCEPT !.reconciler = IF @ # 0 /\ @ <= sequence THEN 0 ELSE @]

\* TenantShard::set_last_error
ObSetLastError(shard, sequence) == [shard EXCEPT !.last_error = sequence]

\* A failed result that replaces the observed state as a successful one does.
WrongObProcessResult(shard, result) ==
    LET tenant == ObReconcileComplete(
                      [shard EXCEPT !.generation = Max(@, result.generation),
                                    !.pending_compute_notification =
                                        result.pending_compute_notification],
                      result.sequence)
    IN  IF result.ok
        THEN [tenant EXCEPT !.observed = result.observed,
                            !.waiter = Max(@, result.sequence)]
        ELSE [ObSetLastError(tenant, result.sequence) EXCEPT !.observed = result.observed]

\* process_result on the shard of the result.
ObProcessResult(shard, result) ==
    LET tenant == ObReconcileComplete(
                      [shard EXCEPT !.generation = Max(@, result.generation),
                                    !.pending_compute_notification =
                                        result.pending_compute_notification],
                      result.sequence)
    IN  IF result.ok
        THEN [tenant EXCEPT !.observed = result.observed,
                            !.waiter = Max(@, result.sequence)]
        ELSE [ObSetLastError(tenant, result.sequence) EXCEPT
                 !.observed = InsertLocations(@, result.observed)]

\* TenantShard::intent_from_observed: attached where exactly one node
\* reports the shard attached.
IntentFromObserved(observed) ==
    LET attached == {n \in DOMAIN observed : observed[n].mode = "AttachedSingle"}
    IN  IF Cardinality(attached) = 1 THEN CHOOSE n \in attached : TRUE ELSE NoNode

\* re_attach on a shard whose generation was incremented for the node: the
\* generation of a known location follows, an unknown one stays unknown and
\* a missing one is inserted as unknown.
ObReAttach(shard, node_id, new_gen) ==
    [shard EXCEPT !.generation = Max(@, new_gen),
                  !.observed =
                      IF node_id \in DOMAIN @
                      THEN IF @[node_id] # NoConf
                           THEN [@ EXCEPT ![node_id].generation = new_gen]
                           ELSE @
                      ELSE InsertLocations(@, [n \in {node_id} |-> NoConf])]

\* node_configure, ToOffline: the location on the node becomes unknown.
ObOffline(shard, node_id) ==
    [shard EXCEPT !.observed = IF node_id \in DOMAIN @ THEN [@ EXCEPT ![node_id] = NoConf]
                               ELSE @]

\* attach_hook: generation and intent; the observed state in a testing build.
ObAttachHook(shard, node_id, testing) ==
    LET hooked == [shard EXCEPT !.generation = IF node_id = NoNode THEN @ ELSE @ + 1,
                                !.intent = node_id]
    IN  IF testing
        THEN [hooked EXCEPT !.observed = WantedObserved(node_id, hooked.generation)]
        ELSE hooked

ObSet(st) ==
    /\ ob_shard' = st.shard
    /\ ob_tasks' = st.tasks

\* The operations that may spawn a Reconciler run once startup is complete.
ObStarted ==
    /\ ob_startup_complete
    /\ Cardinality(ob_tasks) < MaxObTasks

\* The operations that spawn none run once startup is complete.
ObReady == ob_startup_complete

\* startup_reconcile: the locations the nodes report, the intent they imply,
\* then reconcile_all.
ob_startup_reconcile(scan) ==
    /\ ~ob_startup_complete
    /\ ObSet(ObMaybeReconcileShard(ObShard(IntentFromObserved(scan), scan), ob_tasks))
    /\ ob_startup_complete' = TRUE
    /\ UNCHANGED <<ob_result_rx, ob_describe, obOthers>>

\* tenant_shard_migrate
ob_tenant_shard_migrate(node_id) ==
    /\ ObStarted
    /\ ob_shard.sequence < MaxObSeq
    /\ ob_shard.intent # node_id
    /\ ObSet(ObMaybeReconcileShard([ob_shard EXCEPT !.intent = node_id,
                                                    !.sequence = SequenceNext(@)],
                                   ob_tasks))
    /\ ob_describe' = "none"
    /\ UNCHANGED <<ob_result_rx, ob_startup_complete, obOthers>>

\* reconcile_all
ob_reconcile_all ==
    /\ ObStarted
    /\ ObSet(ObMaybeReconcileShard(ob_shard, ob_tasks))
    /\ ob_describe' = "none"
    /\ UNCHANGED <<ob_result_rx, ob_startup_complete, obOthers>>

\* A Reconciler reaches its end and posts its result: success leaves the
\* intent it was spawned with as the observed state.
ob_reconciler_ok(task) ==
    /\ task \in ob_tasks
    /\ ~task.cancelled
    /\ Len(ob_result_rx) < MaxObResults
    /\ ob_tasks' = ob_tasks \ {task}
    /\ ob_result_rx' = Append(ob_result_rx,
                              ObResult(task, TRUE, WantedObserved(task.intent, task.generation),
                                       FALSE))
    /\ UNCHANGED <<ob_shard, ob_startup_complete, ob_describe, obOthers>>

\* A Reconciler fails at, or is cancelled during, the location_config of a
\* node: the result holds the location of that node, which is unknown.
ob_reconciler_remote_error(task, node_id) ==
    /\ task \in ob_tasks
    /\ Len(ob_result_rx) < MaxObResults
    /\ ob_tasks' = ob_tasks \ {task}
    /\ ob_result_rx' = Append(ob_result_rx,
                              ObResult(task, FALSE,
                                       [n \in {node_id} |-> NoConf],
                                       ob_shard.pending_compute_notification))
    /\ UNCHANGED <<ob_shard, ob_startup_complete, ob_describe, obOthers>>

\* A Reconciler fails at the compute notification, its locations in place.
ob_reconciler_notify_error(task) ==
    /\ task \in ob_tasks
    /\ ~task.cancelled
    /\ task.intent # NoNode
    /\ Len(ob_result_rx) < MaxObResults
    /\ ob_tasks' = ob_tasks \ {task}
    /\ ob_result_rx' = Append(ob_result_rx,
                              ObResult(task, FALSE,
                                       WantedObserved(task.intent, task.generation), TRUE))
    /\ UNCHANGED <<ob_shard, ob_startup_complete, ob_describe, obOthers>>

\* process_results takes a result from the channel: process_result.
ob_process_result ==
    /\ ob_result_rx # <<>>
    /\ ob_shard' = ObProcessResult(ob_shard, Head(ob_result_rx))
    /\ ob_result_rx' = Tail(ob_result_rx)
    /\ ob_describe' = "none"
    /\ UNCHANGED <<ob_tasks, ob_startup_complete, obOthers>>

\* re_attach of a node: incremented says whether Persistence::re_attach
\* incremented the generation of the shard.
ob_re_attach(node_id, incremented) ==
    /\ ObReady
    /\ incremented => ob_shard.generation < MaxObGen
    /\ ob_shard' = IF incremented THEN ObReAttach(ob_shard, node_id, ob_shard.generation + 1)
                   ELSE ob_shard
    /\ ob_describe' = "none"
    /\ UNCHANGED <<ob_tasks, ob_result_rx, ob_startup_complete, obOthers>>

\* node_configure, a node goes offline: its location becomes unknown, and a
\* shard attached to it moves to one of the nodes that may be scheduled,
\* others.
ob_node_configure_offline(node_id, others) ==
    /\ ObStarted
    /\ node_id \notin others
    /\ ob_shard.sequence < MaxObSeq
    /\ LET unknown == ObOffline(ob_shard, node_id)
       IN  ObSet(IF others = {} \/ unknown.intent # node_id THEN ObState(unknown, ob_tasks)
                 ELSE ObMaybeReconcileShard(
                          [unknown EXCEPT !.intent = CHOOSE n \in others :
                                                         \A m \in others : n <= m,
                                          !.sequence = SequenceNext(@)],
                          ob_tasks))
    /\ ob_describe' = "none"
    /\ UNCHANGED <<ob_result_rx, ob_startup_complete, obOthers>>

\* node_configure, a node becomes active: node_activate_reconcile inserts
\* the location the node reports (reported is empty when it reports none),
\* then a shard without reconciler whose location there is unknown is
\* reconciled.
ob_node_configure_active(node_id, reported) ==
    /\ ObStarted
    /\ DOMAIN reported \subseteq {node_id}
    /\ LET activated == [ob_shard EXCEPT !.observed = InsertLocations(@, reported)]
       IN  ObSet(IF /\ activated.reconciler = 0
                    /\ node_id \in DOMAIN activated.observed
                    /\ activated.observed[node_id] = NoConf
                 THEN ObMaybeReconcileShard(activated, ob_tasks)
                 ELSE ObState(activated, ob_tasks))
    /\ ob_describe' = "none"
    /\ UNCHANGED <<ob_result_rx, ob_startup_complete, obOthers>>

\* do_tenant_shard_split, once the split is persisted: the location of the
\* parent on the node of the split is unknown.
ob_do_tenant_shard_split ==
    /\ ObReady
    /\ ob_shard.intent # NoNode
    /\ ob_shard' = [ob_shard EXCEPT !.observed = InsertLocations(
                                        @, [n \in {ob_shard.intent} |-> NoConf])]
    /\ ob_describe' = "none"
    /\ UNCHANGED <<ob_tasks, ob_result_rx, ob_startup_complete, obOthers>>

\* attach_hook
ob_attach_hook(node_id, testing) ==
    /\ ObReady
    /\ node_id # NoNode => ob_shard.generation < MaxObGen
    /\ ob_shard' = ObAttachHook(ob_shard, node_id, testing)
    /\ ob_describe' = "none"
    /\ UNCHANGED <<ob_tasks, ob_result_rx, ob_startup_complete, obOthers>>

\* tenant_describe: last_error of the shard in the response.
ob_tenant_describe ==
    /\ ObReady
    /\ ob_describe' = IF ob_shard.last_error = 0 THEN "" ELSE "error"
    /\ UNCHANGED <<ob_shard, ob_tasks, ob_result_rx, ob_startup_complete, obOthers>>

\* The locations the nodes may report at startup, or one on activation.
ObScans == UNION {[S -> ObConfs] : S \in SUBSET Nodes}

InitObserved ==
    /\ EarlierIdle
    /\ TlIdle
    /\ PsIdle
    /\ NcIdle
    /\ BgIdle
    /\ OvIdle
    /\ AuIdle
    /\ TdIdle
    /\ LkIdle
    /\ ApiIdle
    /\ SqIdle
    /\ ob_shard = ObShard(NoNode, <<>>)
    /\ ob_tasks = {}
    /\ ob_result_rx = <<>>
    /\ ob_startup_complete = FALSE
    /\ ob_describe = "none"

NextObserved ==
    \/ \E scan \in ObScans : ob_startup_reconcile(scan)
    \/ \E n \in Nodes : ob_tenant_shard_migrate(n)
    \/ ob_reconcile_all
    \/ \E task \in ob_tasks : ob_reconciler_ok(task)
    \/ \E task \in ob_tasks, n \in Nodes : ob_reconciler_remote_error(task, n)
    \/ \E task \in ob_tasks : ob_reconciler_notify_error(task)
    \/ ob_process_result
    \/ \E n \in Nodes, incremented \in BOOLEAN : ob_re_attach(n, incremented)
    \/ \E n \in Nodes, others \in SUBSET Nodes : ob_node_configure_offline(n, others)
    \/ \E n \in Nodes, reported \in ObScans : ob_node_configure_active(n, reported)
    \/ ob_do_tenant_shard_split
    \/ \E n \in OptNodes, testing \in BOOLEAN : ob_attach_hook(n, testing)
    \/ ob_tenant_describe

SpecObserved == InitObserved /\ [][NextObserved]_vars

\* C27 as stated: once startup is complete, a step changes the observed
\* locations of the shard only when it is process_result applying a
\* ReconcileResult.
C27_ObservedOnlyByProcessResult ==
    [][(ob_startup_complete /\ ob_shard'.observed # ob_shard.observed) => ob_process_result]_vars

\* C27: a step changes the observed locations of the shard only when it is
\* process_result applying a ReconcileResult, or one of startup_reconcile,
\* re_attach, node_configure (a node going offline, or node_activate_reconcile
\* for one becoming active), do_tenant_shard_split and attach_hook in a
\* testing build; tenant_shard_migrate, reconcile_all, tenant_describe and
\* the Reconciler tasks leave them as they are.
C27_ObservedWriters ==
    [][ob_shard'.observed # ob_shard.observed =>
          \/ ob_process_result
          \/ \E scan \in ObScans : ob_startup_reconcile(scan)
          \/ \E n \in Nodes : ob_re_attach(n, TRUE)
          \/ \E n \in Nodes, others \in SUBSET Nodes : ob_node_configure_offline(n, others)
          \/ \E n \in Nodes, reported \in ObScans : ob_node_configure_active(n, reported)
          \/ ob_do_tenant_shard_split
          \/ \E n \in OptNodes : ob_attach_hook(n, TRUE)]_vars

\* No result was ever applied, and the shard is observed attached in a
\* generation that re_attach or attach_hook issued.
C27_Witness ==
    /\ ob_startup_complete
    /\ ob_shard.waiter = 0
    /\ ob_shard.last_error = 0
    /\ ob_shard.generation = 2
    /\ \E n \in DOMAIN ob_shard.observed : ob_shard.observed[n] = AttachedConf(2)

\* C28: when process_result applies a successful result of the shard's
\* current sequence, the shard has no last_error afterwards; tenant_describe
\* reports no error exactly when the shard has no last_error.
C28_SuccessClearsLastError ==
    [][/\ (/\ ob_process_result
           /\ Head(ob_result_rx).ok
           /\ Head(ob_result_rx).sequence = ob_shard.sequence) => ob_shard'.last_error = 0
       /\ ob_tenant_describe => (ob_describe' = "" <=> ob_shard.last_error = 0)]_vars

NumAuTenants == 2    \* tenants with a shard above the threshold
MaxSize == 2         \* sizes of the shards, in units above split_threshold
MaxTopN == 1         \* shards in the answer of one node

\* ShardCount::new(8)
SPLIT_TO_MAX == 8

\* Config::split_threshold: None, or a size every shard of an answer exceeds.
NoThreshold == -1

SplitThresholds == {NoThreshold, 0}

\* TopTenantShardItem: id is the tenant of the shard.
TopTenantShardItem(id, resident_size, max_logical_size) ==
    [id |-> id, resident_size |-> resident_size, max_logical_size |-> max_logical_size]

TopTenantShardItems ==
    {TopTenantShardItem(id, r, l) : id \in 1..NumAuTenants, r \in 1..MaxSize, l \in 1..MaxSize}

\* What with_client_retries gives for a node: Some(Ok(TopTenantShardsResponse)),
\* or one of the outcomes that skip the node.
TopTenantShardsResults ==
    {[ok |-> FALSE, shards |-> <<>>]}
        \cup {[ok |-> TRUE, shards |-> s] :
                 s \in UNION {[1..k -> TopTenantShardItems] : k \in 0..MaxTopN}}

\* The orders in which nodes.values() may visit the nodes.
NodeOrders == {o \in [1..NumNodes -> Nodes] : \A i, j \in 1..NumNodes : o[i] = o[j] => i = j}

\* top_n once every node was asked: the shards of the answers, in the order
\* of the visits.
RECURSIVE TopN(_, _, _)
TopN(results, order, i) ==
    IF i > Len(order) THEN <<>>
    ELSE (IF results[order[i]].ok THEN results[order[i]].shards ELSE <<>>)
             \o TopN(results, order, i + 1)

\* One item put in its place in a sorted Vec: behind the items whose key is
\* not above its own.
RECURSIVE InsertByKey(_, _)
InsertByKey(sorted, item) ==
    IF sorted = <<>> THEN <<item>>
    ELSE IF Head(sorted).resident_size <= item.resident_size
         THEN <<Head(sorted)>> \o InsertByKey(Tail(sorted), item)
         ELSE <<item>> \o sorted

\* top_n.sort_by_key(|i| i.resident_size): a stable sort, smallest key first.
RECURSIVE SortByKey(_)
SortByKey(top_n) ==
    IF top_n = <<>> THEN <<>>
    ELSE InsertByKey(SortByKey(SubSeq(top_n, 1, Len(top_n) - 1)), top_n[Len(top_n)])

TenantShardSplitRequest(tenant_id, new_shard_count) ==
    [tenant_id |-> tenant_id, new_shard_count |-> new_shard_count]

\* The calls of tenant_shard_split that autosplit_tenants spawns.
AutosplitRequests(split_threshold, top_n) ==
    IF split_threshold = NoThreshold THEN <<>>
    ELSE IF top_n = <<>> THEN <<>>
    ELSE <<TenantShardSplitRequest(Head(SortByKey(top_n)).id, SPLIT_TO_MAX)>>

\* autosplit_tenants: results is what each node answers when it is asked.
autosplit_tenants(split_threshold, results, order) ==
    /\ au_call = NoCall
    /\ au_call' = [fn |-> "autosplit_tenants", split_threshold |-> split_threshold,
                   top_n |-> TopN(results, order, 1),
                   splits |-> AutosplitRequests(split_threshold, TopN(results, order, 1))]
    /\ UNCHANGED auOthers

\* The background loop goes on.
au_return ==
    /\ au_call # NoCall
    /\ au_call' = NoCall
    /\ UNCHANGED auOthers

InitAutosplit ==
    /\ EarlierIdle
    /\ TlIdle
    /\ PsIdle
    /\ NcIdle
    /\ BgIdle
    /\ OvIdle
    /\ TdIdle
    /\ LkIdle
    /\ ApiIdle
    /\ SqIdle
    /\ ObIdle
    /\ au_call = NoCall

NextAutosplit ==
    \/ \E split_threshold \in SplitThresholds, results \in [Nodes -> TopTenantShardsResults],
          order \in NodeOrders : autosplit_tenants(split_threshold, results, order)
    \/ au_return

SpecAutosplit == InitAutosplit /\ [][NextAutosplit]_vars

\* The candidates no other candidate is larger than, by resident size or by
\* logical size.
Largest(top_n) ==
    {i \in 1..Len(top_n) :
        \/ \A j \in 1..Len(top_n) : top_n[j].resident_size <= top_n[i].resident_size
        \/ \A j \in 1..Len(top_n) : top_n[j].max_logical_size <= top_n[i].max_logical_size}

\* C30: an invocation of autosplit_tenants requests no split when
\* auto-splitting is disabled or no node returned a candidate, and otherwise
\* exactly one, to 8 shards, of the tenant of a largest candidate.
C30_AutosplitLargest ==
    au_call # NoCall =>
        IF au_call.split_threshold = NoThreshold \/ au_call.top_n = <<>>
        THEN au_call.splits = <<>>
        ELSE /\ Len(au_call.splits) = 1
             /\ au_call.splits[1].new_shard_count = 8
             /\ \E i \in Largest(au_call.top_n) :
                   au_call.top_n[i].id = au_call.splits[1].tenant_id

(***************************************************************************)
(* optimize_all_validate                                                   *)
(***************************************************************************)
\* u64 values as four 16-bit limbs, the most significant first.
\* const DOWNLOAD_FRESHNESS_THRESHOLD: u64 = 10 * 1024 * 1024 * 1024
DOWNLOAD_FRESHNESS_THRESHOLD == <<0, 2, 32768, 0>>

\* The byte counts a secondary may report: 0, 1, the threshold and its
\* neighbours, twice the threshold and its successor, and u64::MAX.
ByteCounts ==
    {<<0, 0, 0, 0>>, <<0, 0, 0, 1>>, <<0, 2, 32767, 65535>>, <<0, 2, 32768, 0>>,
     <<0, 2, 32768, 1>>, <<0, 5, 0, 0>>, <<0, 5, 0, 1>>, <<65535, 65535, 65535, 65535>>}

\* a < b on u64
LtU64(a, b) ==
    \E i \in 1..4 : a[i] < b[i] /\ \A j \in 1..(i - 1) : a[j] = b[j]

\* a - b on u64 in a build without overflow checks: modulo 2^64.
WrappingSub(a, b) ==
    LET d4 == a[4] - b[4]
        d3 == a[3] - b[3] - (IF d4 < 0 THEN 1 ELSE 0)
        d2 == a[2] - b[2] - (IF d3 < 0 THEN 1 ELSE 0)
        d1 == a[1] - b[1] - (IF d2 < 0 THEN 1 ELSE 0)
    IN  <<(d1 + 65536) % 65536, (d2 + 65536) % 65536, (d3 + 65536) % 65536,
          (d4 + 65536) % 65536>>

\* SecondaryProgress
SecondaryProgress(heatmap_mtime, bytes_downloaded, bytes_total) ==
    [heatmap_mtime |-> heatmap_mtime, bytes_downloaded |-> bytes_downloaded,
     bytes_total |-> bytes_total]

SecondaryProgresses ==
    {SecondaryProgress(h, d, t) : h \in BOOLEAN, d \in ByteCounts, t \in ByteCounts}

\* The condition on the progress of the secondary is evaluated from left to
\* right; the subtraction is reached when the heatmap is there and the
\* second disjunct is false.
SubtractionReached(progress) ==
    /\ progress.heatmap_mtime
    /\ ~(/\ LtU64(progress.bytes_total, DOWNLOAD_FRESHNESS_THRESHOLD)
         /\ progress.bytes_downloaded # progress.bytes_total)

\* bytes_total - bytes_downloaded leaves the range of u64.
Underflows(progress) ==
    /\ SubtractionReached(progress)
    /\ LtU64(progress.bytes_total, progress.bytes_downloaded)

\* The secondary isn't ready.
NotReady(progress) ==
    \/ ~progress.heatmap_mtime
    \/ /\ LtU64(progress.bytes_total, DOWNLOAD_FRESHNESS_THRESHOLD)
       /\ progress.bytes_downloaded # progress.bytes_total
    \/ LtU64(DOWNLOAD_FRESHNESS_THRESHOLD,
             WrappingSub(progress.bytes_total, progress.bytes_downloaded))

\* What the target node of a MigrateAttachment is in the map of the nodes.
TargetNodes == {"dropped", "unavailable", "available"}

\* optimize_all_validate on one candidate: "validated" when it is pushed to
\* validated_work, "skipped" when it is not, "panic" when the subtraction
\* overflows in a build with overflow checks.
Validate(action, node, status_ok, progress, overflow_checks) ==
    IF action = "ReplaceSecondary" THEN "validated"
    ELSE IF node # "available" THEN "skipped"
    ELSE IF ~status_ok THEN "skipped"
    ELSE IF overflow_checks /\ Underflows(progress) THEN "panic"
    ELSE IF NotReady(progress) THEN "skipped"
    ELSE "validated"

optimize_all_validate(action, node, status_ok, progress, overflow_checks) ==
    /\ ov_call = NoCall
    /\ ov_call' = [fn |-> "optimize_all_validate", action |-> action, node |-> node,
                   status_ok |-> status_ok, progress |-> progress,
                   outcome |-> Validate(action, node, status_ok, progress, overflow_checks)]
    /\ UNCHANGED ovOthers

\* The background loop goes on with the validated work.
ov_return ==
    /\ ov_call # NoCall
    /\ ov_call' = NoCall
    /\ UNCHANGED ovOthers

InitValidateOptimization ==
    /\ EarlierIdle
    /\ TlIdle
    /\ PsIdle
    /\ NcIdle
    /\ BgIdle
    /\ TdIdle
    /\ LkIdle
    /\ ApiIdle
    /\ SqIdle
    /\ ObIdle
    /\ AuIdle
    /\ ov_call = NoCall

NextValidateOptimization ==
    \/ \E action \in {"MigrateAttachment", "ReplaceSecondary"}, node \in TargetNodes,
          status_ok \in BOOLEAN, progress \in SecondaryProgresses, overflow_checks \in BOOLEAN :
          optimize_all_validate(action, node, status_ok, progress, overflow_checks)
    \/ ov_return

SpecValidateOptimization == InitValidateOptimization /\ [][NextValidateOptimization]_vars

\* The target node answered tenant_secondary_status with a progress.
Asked == ov_call.action = "MigrateAttachment" /\ ov_call.node = "available" /\ ov_call.status_ok

\* C31: a MigrateAttachment is validated only if the target node is
\* available, its secondary reports a heatmap and bytes_total -
\* bytes_downloaded is below DOWNLOAD_FRESHNESS_THRESHOLD; that subtraction
\* never leaves the range of u64; a ReplaceSecondary is always validated.
C31_ValidatedMigration ==
    ov_call # NoCall =>
        /\ (ov_call.action = "MigrateAttachment" /\ ov_call.outcome = "validated") =>
              /\ Asked
              /\ ov_call.progress.heatmap_mtime
              /\ ~LtU64(ov_call.progress.bytes_total, ov_call.progress.bytes_downloaded)
              /\ LtU64(WrappingSub(ov_call.progress.bytes_total,
                                   ov_call.progress.bytes_downloaded),
                       DOWNLOAD_FRESHNESS_THRESHOLD)
        /\ Asked => ~Underflows(ov_call.progress)
        /\ ov_call.action = "ReplaceSecondary" => ov_call.outcome = "validated"

(***************************************************************************)
(* Service::spawn, startup_reconcile and the startup_complete barrier      *)
(***************************************************************************)
MaxRounds == 2       \* rounds of each background loop

\* utils::completion: the Barrier is ready once every Completion is dropped.
BarrierReady(completions) == completions = {}

\* A wait that does not wait.
WrongStartupCompleteWait(completions) == TRUE

\* self.startup_complete.clone().wait().await
StartupCompleteWait(completions) == BarrierReady(completions)

\* No round was run.
NoRounds ==
    [reconcile_all |-> 0, optimize_all |-> 0, autosplit_tenants |-> 0, heartbeat |-> 0,
     initial_heartbeat_round |-> FALSE, startup_reconcile_all |-> FALSE]

\* Service::spawn returns: its startup_completion goes out of scope.
bg_spawn_return ==
    /\ "spawn" \in bg_completions
    /\ bg_completions' = bg_completions \ {"spawn"}
    /\ UNCHANGED <<bg_startup, bg_cancel, bg_gate_closed, bg_tasks, bg_rounds, bgOthers>>

\* The startup task enters the gate, or returns when the gate is closed;
\* its Completion is dropped with it.
bg_startup_enter ==
    /\ bg_startup = "spawned"
    /\ IF bg_gate_closed
       THEN /\ bg_startup' = "returned"
            /\ bg_completions' = bg_completions \ {"startup"}
       ELSE /\ bg_startup' = "startup_reconcile"
            /\ UNCHANGED bg_completions
    /\ UNCHANGED <<bg_cancel, bg_gate_closed, bg_tasks, bg_rounds, bgOthers>>

\* startup_reconcile: the initial heartbeat round and the scan of the nodes.
bg_startup_scan ==
    /\ bg_startup = "startup_reconcile"
    /\ bg_startup' = "scanned"
    /\ bg_rounds' = [bg_rounds EXCEPT !.initial_heartbeat_round = TRUE]
    /\ UNCHANGED <<bg_completions, bg_cancel, bg_gate_closed, bg_tasks, bgOthers>>

\* startup_reconcile: the state is populated, reconcile_all is called, and
\* the function returns.
bg_startup_reconcile_all ==
    /\ bg_startup = "scanned"
    /\ bg_startup' = "finished"
    /\ bg_rounds' = [bg_rounds EXCEPT !.startup_reconcile_all = TRUE]
    /\ UNCHANGED <<bg_completions, bg_cancel, bg_gate_closed, bg_tasks, bgOthers>>

\* drop(startup_completion)
bg_startup_drop ==
    /\ bg_startup = "finished"
    /\ bg_startup' = "dropped"
    /\ bg_completions' = bg_completions \ {"startup"}
    /\ UNCHANGED <<bg_cancel, bg_gate_closed, bg_tasks, bg_rounds, bgOthers>>

\* A background task gets past the barrier.
bg_wait(task) ==
    /\ bg_tasks[task] = "wait"
    /\ StartupCompleteWait(bg_completions)
    /\ bg_tasks' = [bg_tasks EXCEPT ![task] = "loop"]
    /\ UNCHANGED <<bg_completions, bg_startup, bg_cancel, bg_gate_closed, bg_rounds, bgOthers>>

\* A background task finds the Service cancelled.
bg_exit(task) ==
    /\ bg_tasks[task] = "loop"
    /\ bg_cancel
    /\ bg_tasks' = [bg_tasks EXCEPT ![task] = "exit"]
    /\ UNCHANGED <<bg_completions, bg_startup, bg_cancel, bg_gate_closed, bg_rounds, bgOthers>>

\* A tick of background_reconcile: reconcile_all, optimize_all when no
\* reconcile was spawned, autosplit_tenants when nothing was optimized.
bg_background_reconcile(spawned_count, optimizations) ==
    /\ bg_tasks["background_reconcile"] = "loop"
    /\ ~bg_cancel
    /\ bg_rounds.reconcile_all < MaxRounds
    /\ bg_rounds' = [bg_rounds EXCEPT
          !.reconcile_all = @ + 1,
          !.optimize_all = IF spawned_count = 0 THEN @ + 1 ELSE @,
          !.autosplit_tenants = IF spawned_count = 0 /\ optimizations = 0 THEN @ + 1
                                ELSE @]
    /\ UNCHANGED <<bg_completions, bg_startup, bg_cancel, bg_gate_closed, bg_tasks, bgOthers>>

\* A tick of spawn_heartbeat_driver.
bg_heartbeat ==
    /\ bg_tasks["spawn_heartbeat_driver"] = "loop"
    /\ ~bg_cancel
    /\ bg_rounds.heartbeat < MaxRounds
    /\ bg_rounds' = [bg_rounds EXCEPT !.heartbeat = @ + 1]
    /\ UNCHANGED <<bg_completions, bg_startup, bg_cancel, bg_gate_closed, bg_tasks, bgOthers>>

\* shutdown: the cancellation, then the gate is closed once no task holds it.
bg_shutdown_cancel ==
    /\ ~bg_cancel
    /\ bg_cancel' = TRUE
    /\ UNCHANGED <<bg_completions, bg_startup, bg_gate_closed, bg_tasks, bg_rounds, bgOthers>>

bg_shutdown_gate_close ==
    /\ bg_cancel
    /\ ~bg_gate_closed
    /\ bg_startup \in {"spawned", "returned", "dropped"}
    /\ bg_gate_closed' = TRUE
    /\ UNCHANGED <<bg_completions, bg_startup, bg_cancel, bg_tasks, bg_rounds, bgOthers>>

InitBackground ==
    /\ EarlierIdle
    /\ TlIdle
    /\ PsIdle
    /\ NcIdle
    /\ TdIdle
    /\ LkIdle
    /\ ApiIdle
    /\ SqIdle
    /\ ObIdle
    /\ AuIdle
    /\ OvIdle
    /\ bg_completions = {"spawn", "startup"}
    /\ bg_startup = "spawned"
    /\ bg_cancel = FALSE
    /\ bg_gate_closed = FALSE
    /\ bg_tasks = [task \in {"background_reconcile", "spawn_heartbeat_driver"} |-> "wait"]
    /\ bg_rounds = NoRounds

NextBackground ==
    \/ bg_spawn_return
    \/ bg_startup_enter
    \/ bg_startup_scan
    \/ bg_startup_reconcile_all
    \/ bg_startup_drop
    \/ \E task \in DOMAIN bg_tasks : bg_wait(task)
    \/ \E task \in DOMAIN bg_tasks : bg_exit(task)
    \/ \E spawned_count \in 0..1, optimizations \in 0..1 :
          bg_background_reconcile(spawned_count, optimizations)
    \/ bg_heartbeat
    \/ bg_shutdown_cancel
    \/ bg_shutdown_gate_close

SpecBackground == InitBackground /\ [][NextBackground]_vars

tenant_create_reconcile(id, node_id) ==
    /\ id \in RcShards \ DOMAIN rshards
    /\ LET inserted == [i \in DOMAIN rshards \cup {id} |->
                          IF i = id THEN RcShard(node_id, 0) ELSE rshards[i]]
           r == maybe_reconcile_shard(RcState(inserted, permits, delayed_reconcile_rx,
                                              tasks), id)
       IN  RcSet(r.st)
    /\ seq_wait' = [seq_wait EXCEPT ![id] = [waiter |-> 0, error_seq |-> 0]]
    /\ applied' = [applied EXCEPT ![id] = 0]
    /\ UNCHANGED <<exiting, result_rx, waits, reconciles_spawned, rcOthers>>

MaxDelayedResults == 1   \* results waiting in result_rx

\* Reconciles that succeed or fail, and tenants deleted and created again.
NextDelayed ==
    \/ reconcile_all
    \/ \E id \in RcShards, ok \in BOOLEAN :
          Len(result_rx) < MaxDelayedResults /\ reconciler_result(id, ok)
    \/ reconciler_exit
    \/ process_result_reconcile
    \/ \E id \in RcShards : tenant_delete_reconcile(id)
    \/ \E id \in RcShards, n \in IntentValues : tenant_create_reconcile(id, n)

SpecDelayed == InitReconcile /\ [][NextDelayed]_vars

\* How often a shard id is in the delayed-reconcile queue.
TimesDelayed(id) ==
    Cardinality({i \in DOMAIN delayed_reconcile_rx : delayed_reconcile_rx[i] = id})

\* C33: a shard id is in the delayed-reconcile queue at most once, and a
\* shard of the tenant map has delayed_reconcile set exactly while its id is
\* in the queue.
C33_DelayedOnce ==
    /\ \A id \in RcShards : TimesDelayed(id) <= 1
    /\ \A id \in DOMAIN rshards : rshards[id].delayed_reconcile <=> TimesDelayed(id) > 0

(***************************************************************************)
(* node_configure: a node that goes offline                                *)
(***************************************************************************)
NumNcShards == 2     \* shards in the tenant map
MaxNcSeq == 3        \* intents change while the shards' sequences stay within this

NcShards == 1..NumNcShards

\* TenantShard as node_configure sees it; observed maps the nodes with an
\* observed location to "conf" (a known configuration) or "none" (conf: None).
NcShard(policy, intent, observed) ==
    [policy |-> policy, intent |-> intent, sequence |-> 1, observed |-> observed]

\* The locations a completed reconcile of the intent leaves.
NcObserved(intent) ==
    [n \in (intent.secondary \cup {intent.attached}) \ {NoNode} |-> "conf"]

\* Node::get_availability_transition
get_availability_transition(node, availability) ==
    IF node.available /\ availability = "Offline" THEN "ToOffline"
    ELSE IF ~node.available /\ availability = "Active" THEN "ToActive"
    ELSE "Unchanged"

\* The node with what the request asks for applied.
NcConfigured(node, availability, scheduling) ==
    Node(IF scheduling = "None" THEN node.scheduling ELSE scheduling,
         IF availability = "None" THEN node.available ELSE availability = "Active")

\* A node going offline that reschedules also when no node may be scheduled on.
WrongNcOffline(shard, node_id, nd, preferred) ==
    LET unknown == [shard EXCEPT !.observed =
                       [n \in DOMAIN @ |-> IF n = node_id THEN "none" ELSE @[n]]]
    IN  IF Cardinality(DOMAIN nd) = 1 THEN unknown
        ELSE IF unknown.intent.attached # node_id THEN unknown
        ELSE SqSchedule(SqWithIntent(unknown,
                                     demote_attached(Counted(unknown.intent, <<>>), node_id),
                                     SequenceNext(unknown.sequence)),
                        nd, preferred)

\* node_configure, ToOffline, on one shard: the observed location on the
\* node becomes unknown, and the shard is demoted and scheduled.
NcOffline(shard, node_id, nd, preferred) ==
    SqOffline([shard EXCEPT !.observed =
                  [n \in DOMAIN @ |-> IF n = node_id THEN "none" ELSE @[n]]],
              node_id, nd, preferred)

\* node_configure(node_id, availability, scheduling); reported are the shards
\* the node reports to node_activate_reconcile when it becomes active.
nc_node_configure(node_id, availability, scheduling, preferred, reported) ==
    /\ \A id \in NcShards : nc_tenants[id].sequence + 2 <= MaxNcSeq
    /\ IF node_id \notin DOMAIN nc_nodes
       THEN /\ nc_call' = [fn |-> "node_configure", node_id |-> node_id,
                           transition |-> "NotFound"]
            /\ UNCHANGED <<nc_nodes, nc_tenants>>
       ELSE LET transition == IF availability = "None" THEN "Unchanged"
                              ELSE get_availability_transition(nc_nodes[node_id], availability)
                new_nodes == [nc_nodes EXCEPT
                                 ![node_id] = NcConfigured(@, availability, scheduling)]
            IN  /\ nc_nodes' = new_nodes
                /\ nc_tenants' =
                      [id \in NcShards |->
                          IF transition = "ToOffline"
                          THEN NcOffline(nc_tenants[id], node_id, new_nodes, preferred)
                          ELSE IF transition = "ToActive" /\ id \in reported
                          THEN [nc_tenants[id] EXCEPT !.observed =
                                   InsertLocations(@, [n \in {node_id} |-> "conf"])]
                          ELSE nc_tenants[id]]
                /\ nc_call' = [fn |-> "node_configure", node_id |-> node_id,
                               transition |-> transition]
    /\ UNCHANGED ncOthers

\* tenant_shard_migrate to an available node.
nc_tenant_shard_migrate(id, node_id) ==
    /\ node_id \in DOMAIN nc_nodes
    /\ nc_nodes[node_id].available
    /\ nc_tenants[id].sequence < MaxNcSeq
    /\ nc_tenants[id].intent.attached # node_id
    /\ nc_tenants' = [nc_tenants EXCEPT ![id] = SqMigrate(@, node_id)]
    /\ nc_call' = NoCall
    /\ UNCHANGED <<nc_nodes, ncOthers>>

\* process_result of a successful reconcile of the shard's intent.
nc_process_result(id) ==
    /\ \A n \in DOMAIN NcObserved(nc_tenants[id].intent) : nc_nodes[n].available
    /\ nc_tenants[id].observed # NcObserved(nc_tenants[id].intent)
    /\ nc_tenants' = [nc_tenants EXCEPT ![id].observed = NcObserved(nc_tenants[id].intent)]
    /\ nc_call' = NoCall
    /\ UNCHANGED <<nc_nodes, ncOthers>>

\* The clusters: one node, or all of them.
NcClusters == {{1}, Nodes}

InitNodeConfigure ==
    /\ EarlierIdle
    /\ TlIdle
    /\ PsIdle
    /\ TdIdle
    /\ LkIdle
    /\ ApiIdle
    /\ SqIdle
    /\ ObIdle
    /\ AuIdle
    /\ OvIdle
    /\ BgIdle
    /\ \E cluster \in NcClusters :
          /\ nc_nodes = [n \in cluster |-> Node("Active", TRUE)]
          /\ \E policy \in [NcShards -> {"Attached0", "Attached1"}],
                preferred \in [NcShards -> cluster] :
                nc_tenants =
                   [id \in NcShards |->
                       LET intent == schedule(Counted(NoIntent, <<>>), policy[id], nc_nodes,
                                              preferred[id]).c.intent
                       IN  NcShard(policy[id], intent, NcObserved(intent))]
    /\ nc_call = NoCall

NextNodeConfigure ==
    \/ \E node_id \in Nodes, availability \in {"None", "Active", "Offline"},
          scheduling \in {"None", "Active", "Pause"}, preferred \in Nodes,
          reported \in SUBSET NcShards :
          nc_node_configure(node_id, availability, scheduling, preferred, reported)
    \/ \E id \in NcShards, node_id \in Nodes : nc_tenant_shard_migrate(id, node_id)
    \/ \E id \in NcShards : nc_process_result(id)

SpecNodeConfigure == InitNodeConfigure /\ [][NextNodeConfigure]_vars

\* The node_configure that just ran took its node from Active to Offline.
NcWentOffline == nc_call'.fn = "node_configure" /\ nc_call'.transition = "ToOffline"

\* There was nowhere to reschedule to: a single node, or no node that may be
\* scheduled on.
NcNowhere ==
    \/ Cardinality(DOMAIN nc_nodes') = 1
    \/ ~\E n \in DOMAIN nc_nodes' : MaySchedule(nc_nodes'[n])

\* C34: when node_configure moves node N from Active to Offline, every
\* shard's observed location on N becomes unknown; every shard whose
\* intent.attached was N is demoted (N becomes a secondary) and rescheduled
\* (another node is attached) with a higher sequence; but when N is the only
\* node, or no node may be scheduled on, no shard's intent or sequence changes.
C34_NodeOffline ==
    [][NcWentOffline =>
          \A id \in NcShards :
             LET N == nc_call'.node_id
                 old == nc_tenants[id]
                 new == nc_tenants'[id]
             IN  /\ DOMAIN new.observed = DOMAIN old.observed
                 /\ \A n \in DOMAIN old.observed :
                       new.observed[n] = IF n = N THEN "none" ELSE old.observed[n]
                 /\ IF NcNowhere
                    THEN new.intent = old.intent /\ new.sequence = old.sequence
                    ELSE IF old.intent.attached = N
                    THEN /\ N \in new.intent.secondary
                         /\ new.intent.attached \notin {N, NoNode}
                         /\ new.sequence > old.sequence
                    ELSE new.intent = old.intent /\ new.sequence = old.sequence]_vars

\* A node went offline and a shard attached to it was rescheduled.
C34_Witness ==
    /\ nc_call.fn = "node_configure"
    /\ nc_call.transition = "ToOffline"
    /\ \E id \in NcShards :
          /\ nc_call.node_id \in nc_tenants[id].intent.secondary
          /\ nc_tenants[id].intent.attached \notin {nc_call.node_id, NoNode}
          /\ nc_tenants[id].sequence > 1
          /\ nc_tenants[id].observed[nc_call.node_id] = "none"

(***************************************************************************)
(* A drain or fill whose node changes policy under it                      *)
(***************************************************************************)
\* The policy a running drain or fill keeps its node in.
OperationPolicy(kind) == IF kind = "drain" THEN "Draining" ELSE "Filling"

\* The task of request r runs and its node is no longer in the policy of
\* the operation: something else has changed it.
PolicyChanged(r) ==
    /\ ops[r].pc \in {"running", "waiting"}
    /\ nodes[ops[r].node].scheduling # OperationPolicy(ops[r].kind)

\* The task of request r takes a step.
TaskStep(r) ==
    /\ ops[r].pc \in {"running", "waiting"}
    /\ ops'[r] # ops[r]
    /\ ops'[r] # [ops[r] EXCEPT !.cancelled = TRUE]

\* The task of request r stops with NodeStateChanged, leaves the nodes and
\* their rows alone, and ongoing_operation is empty.
StoppedOnChange(r) ==
    /\ ops'[r].pc = "done"
    /\ ops'[r].result = "NodeStateChanged"
    /\ nodes' = nodes
    /\ node_rows' = node_rows
    /\ ongoing_operation' = NoOperation

PsCounts == {1, 2, MaxShardCount}

PsIds == UNION {AllShards(c) : c \in PsCounts}

RECURSIVE PsSorted(_)
\* The shards of the tenant in the order of the map: TenantShardId orders by
\* shard number, then shard count.
PsSorted(S) ==
    IF S = {} THEN <<>>
    ELSE LET first == CHOOSE id \in S : \A o \in S :
                          id[2] < o[2] \/ (id[2] = o[2] /\ id[1] <= o[1])
         IN  <<first>> \o PsSorted(S \ {first})

\* ShardSplitTarget: a shard to split and the node it is attached to.
ShardSplitTarget(parent_id, node) == <<parent_id, node>>

\* The answer of the validation: NoOp with the children found, Split with
\* the old shard count and the targets, or an error.
ShardSplitAction(kind, old_shard_count, ids) ==
    [kind |-> kind, old_shard_count |-> old_shard_count, ids |-> ids]

RECURSIVE WrongPrepareFrom(_, _, _, _, _, _)
\* A validation that answers NoOp whenever it found nothing to split.
WrongPrepareFrom(ids, m, new_shard_count, old_shard_count, targets, children_found) ==
    IF ids = <<>>
    THEN IF targets = {} THEN ShardSplitAction("NoOp", 0, children_found)
         ELSE ShardSplitAction("Split", old_shard_count, targets)
    ELSE LET id == Head(ids)
         IN  IF id[1] = new_shard_count
             THEN WrongPrepareFrom(Tail(ids), m, new_shard_count, old_shard_count, targets,
                                   children_found \cup {id})
             ELSE IF id[1] > new_shard_count THEN ShardSplitAction("BadRequest", 0, {})
             ELSE IF old_shard_count # 0 /\ old_shard_count # id[1]
             THEN ShardSplitAction("Conflict", 0, {})
             ELSE IF m[id].node = NoNode THEN ShardSplitAction("BadRequest", 0, {})
             ELSE WrongPrepareFrom(Tail(ids), m, new_shard_count, id[1],
                              targets \cup {ShardSplitTarget(id, m[id].node)},
                                   children_found)

RECURSIVE PrepareFrom(_, _, _, _, _, _)
\* The loop of prepare_tenant_shard_split over the shards of the tenant, and
\* what it answers when the loop is over.
PrepareFrom(ids, m, new_shard_count, old_shard_count, targets, children_found) ==
    IF ids = <<>>
    THEN IF targets = {}
         THEN IF Cardinality(children_found) = new_shard_count
              THEN ShardSplitAction("NoOp", 0, children_found)
              ELSE ShardSplitAction("NotFound", 0, {})
         ELSE ShardSplitAction("Split", old_shard_count, targets)
    ELSE LET id == Head(ids)
         IN  IF id[1] = new_shard_count
             THEN PrepareFrom(Tail(ids), m, new_shard_count, old_shard_count, targets,
                              children_found \cup {id})
             ELSE IF id[1] > new_shard_count THEN ShardSplitAction("BadRequest", 0, {})
             ELSE IF old_shard_count # 0 /\ old_shard_count # id[1]
             THEN ShardSplitAction("Conflict", 0, {})
             ELSE IF m[id].node = NoNode THEN ShardSplitAction("BadRequest", 0, {})
             ELSE PrepareFrom(Tail(ids), m, new_shard_count, id[1],
                              targets \cup {ShardSplitTarget(id, m[id].node)},
                              children_found)

\* prepare_tenant_shard_split; new_stripe_size is TRUE when the request
\* names a stripe size other than the tenant's.
prepare_tenant_shard_split(m, new_shard_count, new_stripe_size) ==
    LET action == PrepareFrom(PsSorted(DOMAIN m), m, new_shard_count, 0, {}, {})
    IN  IF action.kind = "Split" /\ action.old_shard_count > 1 /\ new_stripe_size
        THEN ShardSplitAction("BadRequest", 0, {})
        ELSE action

\* tenant_shard_split: the validation, the answer of a NoOp or of an error,
\* and for a split the first step of do_tenant_shard_split (ok: it did not
\* fail; a failure queues the abort job).
ps_tenant_shard_split(new_shard_count, new_stripe_size, ok) ==
    /\ sp.pc = "idle"
    /\ ps_call = NoCall
    /\ LET action == prepare_tenant_shard_split(mem, new_shard_count, new_stripe_size)
       IN  /\ action.kind = "Split" => CanSplit(mem, new_shard_count)
           /\ ps_call' = [fn |-> "tenant_shard_split", new_shard_count |-> new_shard_count,
                          response |-> action]
           /\ sp' = IF action.kind = "Split"
                    THEN SplitRequest(IF ok THEN "prepared" ELSE "abort",
                                      action.old_shard_count, new_shard_count, ~ok)
                    ELSE sp
    /\ startup_abort' = 0
    /\ UNCHANGED <<mem, rows, psSplitOthers>>

\* The request is answered: with the NoOp or the error, when the split is
\* committed, or when it failed and its abort is queued.
ps_return ==
    /\ ps_call # NoCall
    /\ sp.pc \in {"idle", "abort", "aborted"}
    /\ ps_call' = NoCall
    /\ UNCHANGED psOthers

\* The tenant maps attach_hook and tenant_create can build: any shards of
\* the tenant, attached or not.
InitPrepareSplit ==
    /\ GenIdle
    /\ OpsIdle
    /\ RcIdle
    /\ PlIdle
    /\ ReIdle
    /\ CrIdle
    /\ LaterIdle
    /\ vreq = <<>>
    /\ vresp = <<>>
    /\ \E ids \in SUBSET PsIds : \E attached \in [ids -> {NoNode, 1}] :
          /\ mem = [id \in ids |-> ShardState("Idle", attached[id])]
          /\ rows = mem
    /\ sp = SplitRequest("idle", 0, 0, FALSE)
    /\ startup_abort = 0

NextPrepareSplit ==
    \/ \E c \in ShardCounts, new_stripe_size \in BOOLEAN, ok \in BOOLEAN :
          ps_tenant_shard_split(c, new_stripe_size, ok)
    \/ ps_return
    \/ \E o \in Outcomes : split_begin(o)
    \/ \E ok \in BOOLEAN : split_apply_splitting(ok)
    \/ \E ok \in BOOLEAN : split_remote(ok)
    \/ \E o \in Outcomes : split_complete(o)
    \/ \E ok \in BOOLEAN : split_commit(ok)
    \/ \E ok \in BOOLEAN : abort_persist(ok)
    \/ \E ok \in BOOLEAN : abort_cleanup(ok)

SpecPrepareSplit == InitPrepareSplit /\ [][NextPrepareSplit]_vars

\* The shard counts of the tenant below the requested one.
CountsBelow(m, new_shard_count) == {c \in CountsOf(m) : c < new_shard_count}

\* C36: a tenant_shard_split to count N on a tenant that holds exactly the N
\* shards of count N answers with these shards; with a shard of a count
\* above N it fails with BadRequest, with shards of two different counts
\* below N with Conflict, with an unattached shard of a count below N with
\* BadRequest, on an unknown tenant with NotFound (each clause for a request
\* with no other of these defects); and a request answered with a NoOp or an
\* error changes neither the map nor the database and queues no abort.
C36_SplitValidation ==
    [][ps_call'.fn = "tenant_shard_split" =>
          LET N == ps_call'.new_shard_count
              action == ps_call'.response
              above == \E id \in DOMAIN mem : id[1] > N
              unattached == \E id \in DOMAIN mem : id[1] < N /\ mem[id].node = NoNode
              mixed == Cardinality(CountsBelow(mem, N)) > 1
          IN  /\ DOMAIN mem = AllShards(N) =>
                    action = ShardSplitAction("NoOp", 0, AllShards(N))
              /\ above /\ ~mixed => action.kind = "BadRequest"
              /\ mixed /\ ~above /\ ~unattached => action.kind = "Conflict"
              /\ unattached /\ ~above /\ ~mixed => action.kind = "BadRequest"
              /\ DOMAIN mem = {} => action.kind = "NotFound"
              /\ above \/ mixed \/ unattached => action.kind \in {"BadRequest", "Conflict"}
              /\ action.kind # "Split" =>
                    /\ mem' = mem
                    /\ rows' = rows
                    /\ sp' = sp
                    /\ sp'.pc # "abort"]_vars

\* A request on a tenant that is already split was answered with its shards.
C36_Witness ==
    /\ ps_call.fn = "tenant_shard_split"
    /\ ps_call.response.kind = "NoOp"
    /\ ps_call.new_shard_count = 2
    /\ DOMAIN mem = AllShards(2)
    /\ sp.pc = "idle"

\* C37: the batch of drain_node(N) that ends the scan of the tenant map has
\* attempted every shard behind the last inspected one that is attached to
\* N: the shard is rescheduled, or no node could take it.  With the batches
\* before it, which each resume behind the shard they inspected last, no
\* shard that stays in the map and attached to N is skipped.
C37_CursorResumes ==
    [][(ops[1].kind = "drain" /\ ops[1].pc = "running" /\ ops'[1].pc = "waiting") =>
          \A tid \in DOMAIN intents :
             (tid > ops[1].last_inspected_shard /\ intents[tid].attached = ops[1].node) =>
                \/ intents'[tid].attached # ops[1].node
                \/ \A p \in Nodes :
                      ~reschedule_to_secondary(intents[tid], NoNode, nodes, p).ok]_vars

(***************************************************************************)
(* tenant_timeline_delete                                                  *)
(***************************************************************************)
NumTlShards == 3     \* shards of the tenant whose timeline is deleted
MaxTlReq == 2        \* tenant_timeline_delete requests at a time (they share the tenant's lock)

TlShards == 0..(NumTlShards - 1)

TlReqs == 1..MaxTlReq

TlIdleReq ==
    [pc |-> "idle", statuses |-> [s \in TlShards \ {0} |-> "none"], zero |-> FALSE,
     response |-> "none"]

\* The pageserver's timeline_delete on a shard: 404 when the timeline is
\* gone, else 202 and the deletion goes on in the background.
PageserverStatus(timeline) == IF timeline = "gone" THEN "NOT_FOUND" ELSE "ACCEPTED"

PageserverDelete(timeline) == IF timeline = "gone" THEN "gone" ELSE "deleting"

\* A check that lets shard zero go first when another shard accepted the deletion.
WrongOthersDeleted(statuses) == \E s \in DOMAIN statuses : statuses[s] = "NOT_FOUND"

\* !statuses.iter().any(|s| s != &StatusCode::NOT_FOUND)
OthersDeleted(statuses) == \A s \in DOMAIN statuses : statuses[s] = "NOT_FOUND"

\* The request after the answers of the shards other than zero are in.
TlOthersAnswered(req) ==
    IF \E s \in DOMAIN req.statuses : req.statuses[s] = "none" THEN req
    ELSE IF OthersDeleted(req.statuses) THEN [req EXCEPT !.pc = "zero"]
    ELSE [req EXCEPT !.pc = "done", !.response = "ACCEPTED"]

\* tenant_timeline_delete starts: the targets are the tenant's shards, and
\* the delete is sent to every shard but shard zero.
tl_start(r) ==
    /\ tl_req[r].pc = "idle"
    /\ tl_req' = [tl_req EXCEPT ![r] = TlOthersAnswered([TlIdleReq EXCEPT !.pc = "others"])]
    /\ UNCHANGED <<tl_timeline, tlOthers>>

\* delete_one on a shard other than zero: the pageserver answers, or the
\* call fails (before or after the pageserver acted on it) and the request
\* returns the error.
tl_delete_one(r, shard, failed, processed) ==
    /\ tl_req[r].pc = "others"
    /\ shard \in DOMAIN tl_req[r].statuses
    /\ tl_req[r].statuses[shard] = "none"
    /\ ~failed => processed
    /\ tl_timeline' = IF processed
                      THEN [tl_timeline EXCEPT ![shard] = PageserverDelete(@)]
                      ELSE tl_timeline
    /\ tl_req' = [tl_req EXCEPT ![r] =
                     IF failed
                     THEN [@ EXCEPT !.pc = "done", !.response = "InternalServerError"]
                     ELSE TlOthersAnswered([@ EXCEPT !.statuses[shard] =
                                                        PageserverStatus(tl_timeline[shard])])]
    /\ UNCHANGED tlOthers

\* delete_one on shard zero, and the answer of the request.
tl_delete_zero(r, failed, processed) ==
    /\ tl_req[r].pc = "zero"
    /\ ~failed => processed
    /\ tl_timeline' = IF processed THEN [tl_timeline EXCEPT ![0] = PageserverDelete(@)]
                      ELSE tl_timeline
    /\ tl_req' = [tl_req EXCEPT ![r].pc = "done",
                                ![r].zero = TRUE,
                                ![r].response = IF failed THEN "InternalServerError"
                                                ELSE PageserverStatus(tl_timeline[0])]
    /\ UNCHANGED tlOthers

\* The request has returned; another one may follow.
tl_return(r) ==
    /\ tl_req[r].pc = "done"
    /\ tl_req' = [tl_req EXCEPT ![r] = TlIdleReq]
    /\ UNCHANGED <<tl_timeline, tlOthers>>

\* A pageserver finishes the deletion of the timeline on a shard.
tl_pageserver_deleted(shard) ==
    /\ tl_timeline[shard] = "deleting"
    /\ tl_timeline' = [tl_timeline EXCEPT ![shard] = "gone"]
    /\ UNCHANGED <<tl_req, tlOthers>>

InitTimelineDelete ==
    /\ EarlierIdle
    /\ TdIdle
    /\ LkIdle
    /\ ApiIdle
    /\ SqIdle
    /\ ObIdle
    /\ AuIdle
    /\ OvIdle
    /\ BgIdle
    /\ NcIdle
    /\ PsIdle
    /\ tl_timeline = [s \in TlShards |-> "present"]
    /\ tl_req = [r \in TlReqs |-> TlIdleReq]

NextTimelineDelete ==
    \/ \E r \in TlReqs : tl_start(r)
    \/ \E r \in TlReqs, shard \in TlShards, failed \in BOOLEAN, processed \in BOOLEAN :
          tl_delete_one(r, shard, failed, processed)
    \/ \E r \in TlReqs, failed \in BOOLEAN, processed \in BOOLEAN :
          tl_delete_zero(r, failed, processed)
    \/ \E r \in TlReqs : tl_return(r)
    \/ \E shard \in TlShards : tl_pageserver_deleted(shard)

SpecTimelineDelete == InitTimelineDelete /\ [][NextTimelineDelete]_vars

\* The request r ends in this step.
TlEnds(r) == tl_req[r].pc # "done" /\ tl_req'[r].pc = "done"

\* The delete is sent to shard zero only when every other shard has answered
\* 404 to this request, and the timeline is on shard zero as long as it is on
\* any other shard.
TlZeroLast ==
    /\ \A r \in TlReqs :
          tl_req'[r].zero /\ ~tl_req[r].zero => OthersDeleted(tl_req[r].statuses)
    /\ tl_timeline'[0] # "present" => \A s \in TlShards \ {0} : tl_timeline'[s] = "gone"

\* C38 as stated: shard zero is contacted only after every other shard has
\* answered 404, a request in which another shard answered anything else
\* returns 202 Accepted without contacting shard zero, and shard zero is the
\* last shard on which the timeline disappears.
C38_ZeroLastOrAccepted ==
    [][/\ TlZeroLast
       /\ \A r \in TlReqs :
             TlEnds(r) /\ ~tl_req'[r].zero => tl_req'[r].response = "ACCEPTED"]_vars

\* C38: as above, but the request returns 202 Accepted when every other
\* shard answered and one of them with a status other than 404, and the
\* error when delete_one failed on another shard.
C38_ZeroLast ==
    [][/\ TlZeroLast
       /\ \A r \in TlReqs :
             TlEnds(r) /\ ~tl_req'[r].zero =>
                IF \E s \in DOMAIN tl_req'[r].statuses : tl_req'[r].statuses[s] = "none"
                THEN tl_req'[r].response = "InternalServerError"
                ELSE /\ tl_req'[r].response = "ACCEPTED"
                     /\ ~OthersDeleted(tl_req'[r].statuses)]_vars

\* The timeline is gone everywhere after a request that ended on shard zero,
\* and another request was answered 202 without contacting shard zero.
C38_Witness ==
    /\ \E r \in TlReqs : tl_req[r].pc = "done" /\ tl_req[r].zero
    /\ \E r \in TlReqs :
          tl_req[r].pc = "done" /\ ~tl_req[r].zero /\ tl_req[r].response = "ACCEPTED"
    /\ tl_timeline[0] # "present"

(***************************************************************************)
(* A split beside requests that change the intent of its parents           *)
(***************************************************************************)
\* tenant_shard_migrate, which takes no tenant lock and does not look at
\* TenantShard::splitting: the shard's intent.attached becomes the node.
sc_tenant_shard_migrate(id, node_id) ==
    /\ id \in DOMAIN mem
    /\ mem[id].node \notin {NoNode, node_id}
    /\ mem' = [mem EXCEPT ![id].node = node_id]
    /\ startup_abort' = 0
    /\ UNCHANGED <<rows, sp, splitOthers>>

\* The shards attached to a node are rescheduled to another one.
Rescheduled(m, node_id, to) ==
    [id \in DOMAIN m |-> IF m[id].node = node_id THEN [m[id] EXCEPT !.node = to] ELSE m[id]]

\* node_configure, ToOffline: the shards attached to the node are demoted
\* and scheduled elsewhere.
sc_node_configure_offline(node_id, to) ==
    /\ to # node_id
    /\ \E id \in DOMAIN mem : mem[id].node = node_id
    /\ mem' = Rescheduled(mem, node_id, to)
    /\ startup_abort' = 0
    /\ UNCHANGED <<rows, sp, splitOthers>>

\* do_tenant_shard_split, its beginning: a target that is gone from the map
\* or attached elsewhere than at validation ends the split with an error
\* before anything is written; else the split is begun in the database.
sc_do_tenant_shard_split(outcome) ==
    /\ sp.pc = "prepared"
    /\ ps_call.fn = "tenant_shard_split"
    /\ ps_call.response.kind = "Split"
    /\ \/ outcome = "error"
       \/ \A target \in ps_call.response.ids :
             target[1] \in DOMAIN mem /\ mem[target[1]].node = target[2]
    /\ split_begin(outcome)

\* A tenant of one shard count, all shards attached, and no split yet.
InitSplitCommit ==
    /\ GenIdle
    /\ OpsIdle
    /\ RcIdle
    /\ PlIdle
    /\ ReIdle
    /\ CrIdle
    /\ LaterIdle
    /\ vreq = <<>>
    /\ vresp = <<>>
    /\ \E c \in ShardCounts : \E attached \in [AllShards(c) -> Nodes] :
          /\ mem = [id \in AllShards(c) |-> ShardState("Idle", attached[id])]
          /\ rows = mem
    /\ sp = SplitRequest("idle", 0, 0, FALSE)
    /\ startup_abort = 0

NextSplitCommit ==
    \/ \E c \in ShardCounts, ok \in BOOLEAN : ps_tenant_shard_split(c, FALSE, ok)
    \/ ps_return
    \/ \E o \in Outcomes : sc_do_tenant_shard_split(o)
    \/ \E ok \in BOOLEAN : split_apply_splitting(ok)
    \/ \E ok \in BOOLEAN : split_remote(ok)
    \/ \E o \in Outcomes : split_complete(o)
    \/ \E ok \in BOOLEAN : split_commit(ok)
    \/ \E ok \in BOOLEAN : abort_persist(ok)
    \/ \E ok \in BOOLEAN : abort_cleanup(ok)
    \/ \E id \in PsIds, n \in Nodes : sc_tenant_shard_migrate(id, n)
    \/ \E n \in Nodes, to \in Nodes : sc_node_configure_offline(n, to)

SpecSplitCommit == InitSplitCommit /\ [][NextSplitCommit]_vars

\* A split was committed in memory after the intent of a parent changed.
C39_Witness ==
    /\ sp.pc = "idle"
    /\ ps_call.fn = "tenant_shard_split"
    /\ ps_call.response.kind = "Split"
    /\ \E target \in ps_call.response.ids :
          \E child \in ChildIds(target[1], sp.new_shard_count) :
             child \in DOMAIN mem /\ mem[child].node # target[2]

\* C39: in the step that commits a split in memory, every parent has an
\* attached intent, and every child is attached, in intent and observed
\* state, to the node the split of its parent was executed on: the node of
\* the parent's ShardSplitTarget.
C39_ChildrenOnSplitNode ==
    [][(sp.pc = "completed" /\ sp'.pc = "idle" /\ ps_call.fn = "tenant_shard_split") =>
          /\ \A parent \in DOMAIN mem : mem[parent].node # NoNode
          /\ \A target \in ps_call.response.ids :
                \A child \in ChildIds(target[1], sp.new_shard_count) :
                   /\ child \in DOMAIN mem'
                   /\ mem'[child].node = target[2]]_vars

(***************************************************************************)
(* Drain and fill: the node's policy and ongoing_operation                 *)
(***************************************************************************)
\* start_node_drain and start_node_fill when the service shuts down between
\* their node_configure and the task: node_configure has written Draining
\* or Filling, gate.enter() fails and the request returns ShuttingDown
\* without a handler in ongoing_operation and without a task.
start_operation_shutting_down(r) ==
    /\ ops[r].pc = "configure"
    /\ LET t == ops[r]
           scheduling == OperationPolicy(t.kind)
       IN  /\ nodes' = NodeConfigure(nodes, t.node, scheduling)
           /\ node_rows' = update_node(node_rows, t.node, scheduling)
           /\ ops' = [ops EXCEPT ![r] = [IdleTask EXCEPT !.pc = "done",
                                                          !.result = "ShuttingDown"]]
    /\ UNCHANGED <<intents, ongoing_operation, opsOthers>>

\* Up to MaxOps start requests, which may race, beside cancel requests,
\* node_configure requests and re_attach.
NextStart ==
    \/ \E r \in 1..MaxOps, n \in Nodes : start_node_drain(r, n)
    \/ \E r \in 1..MaxOps, n \in Nodes : start_node_fill(r, n)
    \/ \E r \in 1..MaxOps, ok \in BOOLEAN : start_operation(r, ok)
    \/ \E r \in 1..MaxOps : start_operation_shutting_down(r)
    \/ \E n \in Nodes : cancel_node_drain(n)
    \/ \E n \in Nodes : cancel_node_fill(n)
    \/ \E r \in 1..MaxOps, ok \in BOOLEAN, p \in Nodes, w \in BOOLEAN,
          k \in 0..MAX_RECONCILES_PER_OPERATION : drain_node_batch(r, ok, p, w, k)
    \/ \E r \in 1..MaxOps, ok \in BOOLEAN, k \in 0..MAX_RECONCILES_PER_OPERATION :
          drain_node_wait(r, ok, k)
    \/ \E r \in 1..MaxOps, ok \in BOOLEAN : drain_node_finalize(r, ok)
    \/ \E r \in 1..MaxOps : fill_node_start(r)
    \/ \E r \in 1..MaxOps, ok \in BOOLEAN, w \in BOOLEAN,
          k \in 0..MAX_RECONCILES_PER_OPERATION : fill_node_batch(r, ok, w, k)
    \/ \E r \in 1..MaxOps, ok \in BOOLEAN, k \in 0..MAX_RECONCILES_PER_OPERATION :
          fill_node_wait(r, ok, k)
    \/ \E r \in 1..MaxOps, ok \in BOOLEAN : fill_node_finalize(r, ok)
    \/ \E n \in Nodes, s \in {"Active", "Pause"} : node_configure(n, s)
    \/ \E n \in Nodes : re_attach_node(n)

SpecStart == InitOps /\ [][NextStart]_vars

\* The background task of request r ends in this step.
TaskEnds(r) ==
    /\ ops[r].pc \in {"spawned", "running", "waiting"}
    /\ ops'[r].pc = "done"

\* The node is Draining (Filling) only while ongoing_operation holds the
\* Drain (Fill) of that node.
PolicyOnlyWhileOperation ==
    \A n \in DOMAIN nodes : \A kind \in {"drain", "fill"} :
       nodes[n].scheduling = OperationPolicy(kind) =>
          /\ ongoing_operation # NoOperation
          /\ ongoing_operation.operation = Operation(kind, n)

\* A node is Draining or Filling, its operation has ended and
\* ongoing_operation is empty.
C40_Witness ==
    /\ ongoing_operation = NoOperation
    /\ \E r \in 1..MaxOps :
          /\ ops[r].pc = "done"
          /\ ops[r].result \in {"Ok", "Cancelled", "NodeStateChanged"}
    /\ \E r \in 1..MaxOps :
          /\ ops[r].pc = "done"
          /\ ops[r].result \in {"FinalizeError", "ShuttingDown"}
    /\ \E n \in DOMAIN nodes : nodes[n].scheduling \in {"Draining", "Filling"}

\* C40 as stated: a node's policy is Draining (Filling) only while
\* ongoing_operation holds a Drain (Fill) for that node, and when the
\* background task ends, for whatever reason, ongoing_operation is empty and
\* the node is not left Draining (Filling).
C40_PolicyOnlyWhileOperation ==
    /\ []PolicyOnlyWhileOperation
    /\ [][\A r \in 1..MaxOps : TaskEnds(r) =>
             /\ ongoing_operation' = NoOperation
             /\ nodes'[ops[r].node].scheduling # OperationPolicy(ops[r].kind)]_vars

\* C40: when the background task ends ongoing_operation is empty; a task
\* that ends with Ok or Cancelled leaves the node not Draining (Filling), a
\* task that ends with NodeStateChanged found it so, and a task that ends
\* with FinalizeError leaves the node's policy as it found it.
C40_TaskEnd ==
    [][\A r \in 1..MaxOps : TaskEnds(r) =>
          /\ ongoing_operation' = NoOperation
          /\ ops'[r].result \in {"Ok", "Cancelled", "NodeStateChanged", "FinalizeError"}
          /\ ops'[r].result \in {"Ok", "Cancelled", "NodeStateChanged"} =>
                nodes'[ops[r].node].scheduling # OperationPolicy(ops[r].kind)
          /\ ops'[r].result \in {"NodeStateChanged", "FinalizeError"} =>
                /\ nodes' = nodes
                /\ node_rows' = node_rows]_vars

====
